---------------------------- MODULE Spec2Model ----------------------------
(***************************************************************************)
(* Model of the auto_presentation_agent pipeline: analyzer, outliner and   *)
(* designer.  Python strings are sequences of one-character strings, so    *)
(* that slicing, splitting and stripping are computed as the code computes *)
(* them.  Optional values are <<>> (None) or <<v>>.                        *)
(***************************************************************************)
EXTENDS Integers, Sequences, FiniteSets, TLC

VARIABLES
    pc,               \* which call is pending / finished
    request,          \* PresentationRequest fields handed to the stages
    fs,               \* the environment: the paths that exist, the parsers installed
    llm_client,       \* <<>> (no client) or <<"client">>
    summary,          \* ContentSummary: result of analyze_request, input of generate_outline
    outline,          \* OutlinePlan: result of generate_outline, input of design_slides
    llm_log,          \* replies llm_client.generate gave, in call order
    image_generator,  \* <<>> (no generator) or <<"generator">>
    assets_dir,       \* <<>> (no directory) or <<path>>
    drafts,           \* list of SlideDraft: result of design_slides
    gen_log,          \* invocations of image_generator by the last call, with their outcomes
    design_calls,     \* number of drafts returned by each finished call of design_slides
    titles,           \* a title followed by the results of normalising it again and again
    argv,             \* the command line: the path lists of the --input options, in order
    stage_log,        \* what run_pipeline did so far: the stages started and how each ended
    written,          \* the files written so far, in order: path and content
    result            \* <<>> or <<r>>: what the last call of assemble or generate_image gave

vars == <<pc, request, fs, llm_client, summary, outline, llm_log, image_generator,
          assets_dir, drafts, gen_log, design_calls, titles, argv, stage_log, written,
          result>>

-----------------------------------------------------------------------------
(* Bounds of the model *)

MaxTopics == 13
MaxFindings == 13
MaxDataPoints == 2
MaxDuration == 4
MaxSmall == 2

-----------------------------------------------------------------------------
(* Python built-ins on strings, lists and optionals *)

None == <<>>
Some(v) == <<v>>
Truthy(opt) == opt # <<>>

Min(a, b) == IF a < b THEN a ELSE b
Max(a, b) == IF a > b THEN a ELSE b

\* s[:n]
Take(s, n) == SubSeq(s, 1, Min(n, Len(s)))
\* s[n:]
Drop(s, n) == SubSeq(s, Min(n, Len(s)) + 1, Len(s))

\* The characters of the model are those of Latin-1 (U+0000..U+00FF), the
\* ones a string of a module can hold; the control characters that Python
\* treats as spaces or line breaks are named here.
VerticalTab == ""
FormFeed == "\f"
FileSeparator == ""
GroupSeparator == ""
RecordSeparator == ""
UnitSeparator == ""
NextLine == ""
NoBreakSpace == " "

\* the characters str.isspace() is true of, which str.strip() removes
Whitespace ==
    {" ", "\t", "\n", "\r", VerticalTab, FormFeed, FileSeparator, GroupSeparator,
     RecordSeparator, UnitSeparator, NextLine, NoBreakSpace}

\* the characters str.splitlines() breaks at; "\r\n" is one break
LineBreaks ==
    {"\n", "\r", VerticalTab, FormFeed, FileSeparator, GroupSeparator,
     RecordSeparator, NextLine}

RECURSIVE LStrip(_, _)
LStrip(s, chars) ==
    IF s # <<>> /\ Head(s) \in chars THEN LStrip(Tail(s), chars) ELSE s

RECURSIVE RStrip(_, _)
RStrip(s, chars) ==
    IF s # <<>> /\ s[Len(s)] \in chars
    THEN RStrip(SubSeq(s, 1, Len(s) - 1), chars)
    ELSE s

\* str.strip(chars); str.strip() is Strip(s, Whitespace)
Strip(s, chars) == RStrip(LStrip(s, chars), chars)

\* index of the first occurrence of character c in s, 0 when absent
RECURSIVE FindFrom(_, _, _)
FindFrom(s, c, i) ==
    IF i > Len(s) THEN 0
    ELSE IF s[i] = c THEN i
    ELSE FindFrom(s, c, i + 1)

Find(s, c) == FindFrom(s, c, 1)

\* index of the first character of s, from i on, that is in chars, 0 when none
RECURSIVE FindAnyFrom(_, _, _)
FindAnyFrom(s, chars, i) ==
    IF i > Len(s) THEN 0
    ELSE IF s[i] \in chars THEN i
    ELSE FindAnyFrom(s, chars, i + 1)

\* str.splitlines(): the pieces between line breaks, no empty piece after a
\* final break
RECURSIVE SplitLines(_)
SplitLines(s) ==
    IF s = <<>> THEN <<>>
    ELSE LET k == FindAnyFrom(s, LineBreaks, 1)
         IN IF k = 0 THEN <<s>>
            ELSE IF s[k] = "\r" /\ k < Len(s) /\ s[k + 1] = "\n"
            THEN <<SubSeq(s, 1, k - 1)>> \o SplitLines(Drop(s, k + 1))
            ELSE <<SubSeq(s, 1, k - 1)>> \o SplitLines(Drop(s, k))

\* [x for x in seq if x]
RECURSIVE NonEmpty(_)
NonEmpty(seq) ==
    IF seq = <<>> THEN <<>>
    ELSE (IF Head(seq) # <<>> THEN <<Head(seq)>> ELSE <<>>) \o NonEmpty(Tail(seq))

-----------------------------------------------------------------------------
(* String literals of the source *)

KeyTakeawaySuffix == <<":"," ","k","e","y"," ","t","a","k","e","a","w","a","y">>
OverviewTopic == <<"O","v","e","r","v","i","e","w">>
HighlightPrefix == <<"H","i","g","h","l","i","g","h","t"," ","m","a","i","n"," ","p","o","i","n","t"," ","f","o","r"," ">>

BulletChars == 120
BulletCount == 5
MinSlides == 3
MaxSlides == 12

-----------------------------------------------------------------------------
(* outline.py *)

\* A reply of llm_client.generate(prompt): it raises, returns a falsy value
\* that is not text (None, 0, []), returns text, or returns a truthy value
\* of the response JSON that is not a string (a number, true, a list, an
\* object: GeminiClient.generate hands on parts[0].get("text") unchecked).
LLMRaise == [kind |-> "raise", text |-> <<>>]
LLMNone == [kind |-> "none", text |-> <<>>]
LLMText(t) == [kind |-> "text", text |-> t]
LLMNonText == [kind |-> "nontext", text |-> <<>>]

estimate_slide_count_noclamp(sum, duration) ==
    IF Truthy(duration) /\ duration[1] # 0 /\ duration[1] > 0
    THEN Max(duration[1], 1)
    ELSE Max(Max(Len(sum.findings), Len(sum.topics)), MinSlides)

estimate_slide_count_capped(sum, duration) ==
    IF Truthy(duration) /\ duration[1] # 0 /\ duration[1] > 0
    THEN Min(Max(duration[1], MinSlides), MaxSlides)
    ELSE LET complexity == Max(Max(Len(sum.findings), Len(sum.topics)), 1)
         IN Min(Max(complexity, MinSlides), MaxSlides)

\* _estimate_slide_count: `if duration_minutes and duration_minutes > 0`
estimate_slide_count(sum, duration) ==
    IF Truthy(duration) /\ duration[1] # 0 /\ duration[1] > 0
    THEN Max(duration[1], 1)
    ELSE LET complexity == Max(Max(Len(sum.findings), Len(sum.topics)), 1)
         IN Min(Max(complexity, MinSlides), MaxSlides)

\* _build_bullets
build_bullets(sum, topic) ==
    LET candidates == IF sum.findings # <<>> THEN sum.findings
                      ELSE <<HighlightPrefix \o topic>>
        trimmed == [i \in 1..Len(candidates) |-> Take(candidates[i], BulletChars)]
    IN Take(trimmed, BulletCount)

pick_visual_many(sum) ==
    IF Len(sum.data_points) > 1 THEN "chart" ELSE "image"

\* _pick_visual
pick_visual(sum) ==
    IF sum.data_points # <<>> THEN "chart" ELSE "image"

ThemeDefaults == [k \in {"ratio", "font", "palette"} |->
    CASE k = "ratio" -> <<"1","6",":","9">>
      [] k = "font" -> <<"S","e","g","o","e"," ","U","I">>
      [] k = "palette" -> <<"h","i","g","h","-","c","o","n","t","r","a","s","t">>]

build_theme_known_keys(style_prefs) ==
    [k \in DOMAIN ThemeDefaults |->
        IF k \in DOMAIN style_prefs THEN style_prefs[k] ELSE ThemeDefaults[k]]

\* _build_theme: base.update(style_prefs)
build_theme(style_prefs) ==
    [k \in DOMAIN ThemeDefaults \cup DOMAIN style_prefs |->
        IF k \in DOMAIN style_prefs THEN style_prefs[k] ELSE ThemeDefaults[k]]

\* [line.strip("- ").strip() for line in lines if line.strip()]
RECURSIVE strip_lines(_)
strip_lines(lines) ==
    IF lines = <<>> THEN <<>>
    ELSE (IF Strip(Head(lines), Whitespace) # <<>>
          THEN <<Strip(Strip(Head(lines), {"-", " "}), Whitespace)>>
          ELSE <<>>) \o strip_lines(Tail(lines))

refine_with_llm_uncut(reply, title, bullets) ==
    IF reply.kind = "raise" THEN Some(bullets)
    ELSE IF reply.kind = "none" \/ (reply.kind = "text" /\ reply.text = <<>>)
    THEN Some(bullets)
    ELSE IF reply.kind = "nontext" THEN None
    ELSE LET cleaned == NonEmpty(strip_lines(SplitLines(reply.text)))
         IN IF cleaned # <<>> THEN Some(cleaned) ELSE Some(bullets)

\* _refine_with_llm, given the reply of llm_client.generate: Some(bullets)
\* when it returns, None when it raises. Only the generate call is inside
\* the try; `if not text` lets a truthy value that is not text through to
\* text.splitlines(), which raises AttributeError.
refine_with_llm(reply, title, bullets) ==
    IF reply.kind = "raise" THEN Some(bullets)
    ELSE IF reply.kind = "none" \/ (reply.kind = "text" /\ reply.text = <<>>)
    THEN Some(bullets)
    ELSE IF reply.kind = "nontext" THEN None
    ELSE LET lines == strip_lines(SplitLines(reply.text))
             cleaned == Take(NonEmpty(lines), BulletCount)
         IN IF cleaned # <<>> THEN Some(cleaned) ELSE Some(bullets)

\* one pass of the loop body of generate_outline, for idx (from 0): Some(slide),
\* or None when _refine_with_llm raises
outline_slide(sum, primary_topics, idx, use_reply, reply) ==
    LET topic == primary_topics[(idx % Len(primary_topics)) + 1]
        title == topic \o KeyTakeawaySuffix
        heuristic == build_bullets(sum, topic)
        refined == IF use_reply THEN refine_with_llm(reply, title, heuristic)
                   ELSE Some(<<>>)
    IN IF refined = None THEN None
       ELSE Some([title |-> title,
                  bullets |-> IF use_reply /\ refined[1] # <<>> THEN refined[1]
                              ELSE heuristic,
                  visual_suggestion |-> Some(pick_visual(sum)),
                  sources |-> sum.sources])

\* number of llm_client.generate calls generate_outline makes when no call
\* makes it raise
outline_llm_calls(sum, duration, client, use_llm) ==
    IF Truthy(client) /\ use_llm THEN estimate_slide_count(sum, duration) ELSE 0

\* the replies generate_outline gets to see: the loop ends at the first slide
\* whose refinement raises
RECURSIVE llm_calls_made(_)
llm_calls_made(replies) ==
    IF replies = <<>> THEN <<>>
    ELSE IF Head(replies).kind = "nontext" THEN <<Head(replies)>>
    ELSE <<Head(replies)>> \o llm_calls_made(Tail(replies))

generate_outline_cut_short(sum, duration, style_prefs, client, use_llm, replies) ==
    LET target_count == estimate_slide_count(sum, duration)
        cut == Take(sum.topics, target_count - 1)
        primary_topics == IF cut # <<>> THEN cut ELSE <<OverviewTopic>>
        refine == Truthy(client) /\ use_llm
        made == [i \in 1..target_count |->
                    outline_slide(sum, primary_topics, i - 1, refine,
                                  IF refine THEN replies[i] ELSE LLMNone)]
    IN IF \E i \in 1..target_count : made[i] = None THEN None
       ELSE Some([slides |-> [i \in 1..target_count |-> made[i][1]],
                  theme |-> build_theme(style_prefs)])

\* generate_outline; replies[i] is the LLM reply for slide i (from 1), used
\* only when a client is given and use_llm is set. Some(plan) when it
\* returns, None when the refinement of a slide raises.
generate_outline(sum, duration, style_prefs, client, use_llm, replies) ==
    LET target_count == estimate_slide_count(sum, duration)
        cut == Take(sum.topics, target_count)
        primary_topics == IF cut # <<>> THEN cut ELSE <<OverviewTopic>>
        refine == Truthy(client) /\ use_llm
        made == [i \in 1..target_count |->
                    outline_slide(sum, primary_topics, i - 1, refine,
                                  IF refine THEN replies[i] ELSE LLMNone)]
    IN IF \E i \in 1..target_count : made[i] = None THEN None
       ELSE Some([slides |-> [i \in 1..target_count |-> made[i][1]],
                  theme |-> build_theme(style_prefs)])

-----------------------------------------------------------------------------
(* Inputs of the outliner *)

TopicPool == << <<"A","l","p","h","a">>, <<"B","e","t","a">>, <<"Q","3",":"," ","p","l","a","n">> >>
\* a finding two characters longer than a bullet may be
LongFinding == [i \in 1..(BulletChars + 2) |-> IF i <= BulletChars THEN "x" ELSE "y"]
FindingPool == << <<"R","e","s","u","l","t">>, LongFinding, <<"S","e","c","o","n","d">> >>
DataPointPool == << <<"m"," ","1",".","2">>, <<"n"," ","3">> >>
SourcePool == << <<"/","w","/","n",".","t","x","t">> >>

\* a list of n entries taken cyclically from pool
Cyclic(pool, n) == [i \in 1..n |-> pool[((i - 1) % Len(pool)) + 1]]

PrefKeys == {"palette", "font", "accent"}
PrefValues == {<<"d","a","r","k">>, <<"I","n","t","e","r">>}
StylePrefs == UNION {[K -> PrefValues] : K \in SUBSET PrefKeys}

SixLines == <<"a","\n","b","\n","c","\n","d","\n","e","\n","f">>
\* a reply with "\r\n" line ends, a lone "\r" and a form feed
ReturnLines == <<"-"," ","a","\r","\n","b","\r","-","c",FormFeed,NoBreakSpace,"\r","\n">>
LLMTexts == { <<"-"," ","a","\n","-"," ","b"," ">>,
              ReturnLines,
              SixLines,
              <<" ","\n","-"," ">>,
              <<" ","\n">>,
              <<>> }
LLMReplies == {LLMRaise, LLMNone, LLMNonText} \cup {LLMText(t) : t \in LLMTexts}

Durations == {None} \cup {Some(d) : d \in (-1..MaxDuration) \cup {MaxSlides + 1}}

DefaultOutput == <<"o","u","t","p","u","t","/","p","r","e","s","e","n","t","a","t","i","o","n",".","p","p","t","x">>
GeminiProvider == <<"g","e","m","i","n","i">>
AssetsPath == <<"a","s","s","e","t","s">>

\* PresentationRequest: the fields a caller sets here, the others at their defaults
Request(inputs, instructions, duration, style_prefs, use_llm) ==
    [inputs |-> inputs, instructions |-> instructions, duration_minutes |-> duration,
     style_prefs |-> style_prefs, use_llm |-> use_llm,
     output_path |-> DefaultOutput, llm_provider |-> Some(GeminiProvider),
     llm_model |-> None, image_endpoint |-> None, image_backend |-> "comfy",
     assets_dir |-> AssetsPath]

NoRequest == Request(<<>>, None, None, <<>>, FALSE)
NoOutline == [slides |-> <<>>, theme |-> <<>>]
NoEnvironment ==
    [exists |-> {}, oserror |-> {}, pandas |-> FALSE, pdfplumber |-> FALSE, users |-> <<>>]
NoSummary == [topics |-> <<>>, findings |-> <<>>, data_points |-> <<>>, sources |-> <<>>]

Summary(nt, nf, nd, ns) ==
    [topics |-> Cyclic(TopicPool, nt),
     findings |-> Cyclic(FindingPool, nf),
     data_points |-> Cyclic(DataPointPool, nd),
     sources |-> Cyclic(SourcePool, ns)]

\* summaries of every size, no style preference, no LLM
InitOutlineSizes ==
    /\ \E nt \in 0..MaxTopics, nf \in 0..MaxFindings, nd \in 0..MaxDataPoints :
          summary = Summary(nt, nf, nd, 1)
    /\ \E d \in Durations :
          request = Request(<<>>, None, d, <<>>, FALSE)
    /\ llm_client = None

\* small summaries, every style preference, no LLM client
InitOutlinePrefs ==
    /\ \E nt \in 0..MaxSmall, nf \in 0..MaxSmall, nd \in 0..1 :
          summary = Summary(nt, nf, nd, 0)
    /\ \E d \in {None, Some(1), Some(MaxSmall)}, p \in StylePrefs, u \in BOOLEAN :
          request = Request(<<>>, None, d, p, u)
    /\ llm_client = None

\* small summaries, an LLM client, refinement requested or not
InitOutlineLLM ==
    /\ \E nt \in 0..MaxSmall, nf \in 0..MaxSmall, nd \in 0..1 :
          summary = Summary(nt, nf, nd, 0)
    /\ \E d \in {None, Some(1), Some(MaxSmall)}, u \in BOOLEAN :
          request = Request(<<>>, None, d, [k \in {"palette"} |-> <<"d","a","r","k">>], u)
    /\ llm_client = Some("client")

DesignIdle ==
    /\ image_generator = None
    /\ assets_dir = None
    /\ drafts = <<>>
    /\ gen_log = <<>>
    /\ design_calls = <<>>

\* no command line, no pipeline run, nothing written, no call result
PipelineIdle ==
    /\ argv = <<>>
    /\ stage_log = <<>>
    /\ written = <<>>
    /\ result = None

InitOutline ==
    /\ pc = "outline"
    /\ fs = NoEnvironment
    /\ outline = NoOutline
    /\ llm_log = <<>>
    /\ titles = <<>>
    /\ DesignIdle
    /\ PipelineIdle
    /\ InitOutlineSizes \/ InitOutlinePrefs \/ InitOutlineLLM

\* a call of generate_outline(summary, duration_minutes, style_prefs, llm_client, use_llm)
GenerateOutline ==
    /\ pc = "outline"
    /\ LET n == outline_llm_calls(summary, request.duration_minutes,
                                  llm_client, request.use_llm)
       IN \E replies \in [1..n -> LLMReplies] :
          \E plan \in {generate_outline(summary, request.duration_minutes,
                                         request.style_prefs, llm_client,
                                         request.use_llm, replies)} :
            /\ llm_log' = llm_log \o llm_calls_made(replies)
            /\ IF plan = None
               THEN pc' = "raised" /\ UNCHANGED outline
               ELSE pc' = "outlined" /\ outline' = plan[1]
    /\ UNCHANGED <<request, fs, llm_client, summary, image_generator, assets_dir,
                   drafts, gen_log, design_calls, titles,
                   argv, stage_log, written, result>>

NextOutline == GenerateOutline

SpecOutline == InitOutline /\ [][NextOutline]_vars

-----------------------------------------------------------------------------
(* designer.py *)

VisualForPrefix == <<"V","i","s","u","a","l"," ","f","o","r"," ">>
DraftNotes == <<"D","r","a","f","t","e","d"," ","p","e","r"," ","S","P","E","C"," ","g","u","i","d","e","l","i","n","e","s",".">>
Layouts == <<"split", "stacked", "focus">>
DraftBulletCap == 6

\* An outcome of image_generator(prompt, assets_dir): it raises, or returns
\* None or a path.
GenRaise == [kind |-> "raise", path |-> None]
GenReturn(p) == [kind |-> "return", path |-> p]

cycle_next_exhausted(seq, n) == seq[Min(n, Len(seq) - 1) + 1]

\* next(it) for it = itertools.cycle(seq) that was advanced n times before
cycle_next(seq, n) == seq[(n % Len(seq)) + 1]

title_as_conclusion_find_offset(title) ==
    Drop(title, IF Find(title, ":") # 0 THEN Find(title, ":") + 1 ELSE 1)

title_as_conclusion_last_colon(title) ==
    IF Find(title, ":") # 0
    THEN LET LastColon == CHOOSE k \in 1..Len(title) :
                             title[k] = ":" /\ \A j \in (k + 1)..Len(title) : title[j] # ":"
         IN Strip(Drop(title, LastColon), Whitespace)
    ELSE title

\* _title_as_conclusion: title.split(":", 1)[1].strip() when ":" in title
title_as_conclusion(title) ==
    IF Find(title, ":") # 0
    THEN Strip(Drop(title, Find(title, ":")), Whitespace)
    ELSE title

new_asset_from_draft_title(slide) ==
    [type |-> slide.visual_suggestion[1],
     path |-> None,
     prompt |-> Some(VisualForPrefix \o title_as_conclusion(slide.title)),
     data_ref |-> None]

\* AssetSpec(type=slide.visual_suggestion, prompt=f"Visual for {slide.title}")
new_asset(slide) ==
    [type |-> slide.visual_suggestion[1],
     path |-> None,
     prompt |-> Some(VisualForPrefix \o slide.title),
     data_ref |-> None]

attach_image_uncaught(outcome) ==
    [path |-> IF outcome.kind = "return" THEN outcome.path ELSE None,
     raised |-> outcome.kind = "raise"]

\* the try block around image_generator(asset.prompt, assets_dir): the path
\* to set on the asset (None: left unset) and whether an exception escapes
attach_image(outcome) ==
    [path |-> IF outcome.kind = "return" /\ outcome.path \notin {None, Some(<<>>)}
              THEN outcome.path ELSE None,
     raised |-> FALSE]

\* one pass of the loop body of design_slides for slide number i (from 1)
design_slide(slide, i, generator, dir, outcome) ==
    LET layout == cycle_next(Layouts, i - 1)
        has_visual == slide.visual_suggestion \notin {None, Some("")}
        invoke == /\ has_visual
                  /\ Truthy(generator)
                  /\ Truthy(dir)
                  /\ new_asset(slide).type = "image"
        got == IF invoke THEN attach_image(outcome) ELSE [path |-> None, raised |-> FALSE]
        asset == [new_asset(slide) EXCEPT !.path = got.path]
    IN [draft |-> [title |-> title_as_conclusion(slide.title),
                   bullets |-> Take(slide.bullets, DraftBulletCap),
                   layout |-> layout,
                   assets |-> IF has_visual THEN <<asset>> ELSE <<>>,
                   notes |-> Some(DraftNotes),
                   sources |-> slide.sources],
        calls |-> IF invoke
                  THEN <<[slide |-> i, prompt |-> new_asset(slide).prompt[1],
                          assets_dir |-> dir[1], outcome |-> outcome]>>
                  ELSE <<>>,
        raised |-> got.raised]

\* number of slides for which design_slides invokes the generator
RECURSIVE image_slides(_)
image_slides(slides) ==
    IF slides = <<>> THEN 0
    ELSE (IF Head(slides).visual_suggestion = Some("image") THEN 1 ELSE 0)
         + image_slides(Tail(slides))

design_invocations(plan, generator, dir) ==
    IF Truthy(generator) /\ Truthy(dir) THEN image_slides(plan.slides) ELSE 0

\* the loop of design_slides from slide i on; done holds the drafts appended
\* and the generator invocations made so far
RECURSIVE design_from(_, _, _, _, _, _)
design_from(slides, i, generator, dir, outcomes, done) ==
    IF i > Len(slides) THEN done
    ELSE LET k == Len(done.calls) + 1
             one == design_slide(slides[i], i, generator, dir,
                                 IF k \in DOMAIN outcomes THEN outcomes[k]
                                 ELSE GenReturn(None))
         IN IF one.raised
            THEN [drafts |-> <<>>, calls |-> done.calls \o one.calls, raised |-> TRUE]
            ELSE design_from(slides, i + 1, generator, dir, outcomes,
                             [drafts |-> Append(done.drafts, one.draft),
                              calls |-> done.calls \o one.calls,
                              raised |-> FALSE])

design_slides_dropping_unillustrated(plan, generator, dir, outcomes) ==
    LET all == design_from(plan.slides, 1, generator, dir, outcomes,
                           [drafts |-> <<>>, calls |-> <<>>, raised |-> FALSE])
        Illustrated(draft) ==
            \A k \in 1..Len(draft.assets) :
                draft.assets[k].type = "image" => Truthy(draft.assets[k].path)
    IN [all EXCEPT !.drafts = IF Truthy(generator) /\ Truthy(dir)
                              THEN SelectSeq(@, Illustrated) ELSE @]

\* design_slides(outline, image_generator, assets_dir); outcomes[k] is what
\* the generator does on its k-th invocation
design_slides(plan, generator, dir, outcomes) ==
    design_from(plan.slides, 1, generator, dir, outcomes,
                [drafts |-> <<>>, calls |-> <<>>, raised |-> FALSE])

-----------------------------------------------------------------------------
(* Inputs of the designer *)

MaxOutlineSlides == 4
MaxTitleLen == 3
MaxCalls == 2

TitleChars == {"a", ":", " ", "\r"}
RECURSIVE StringsUpTo(_)
StringsUpTo(n) ==
    IF n = 0 THEN {<<>>}
    ELSE LET shorter == StringsUpTo(n - 1)
         IN shorter \cup {Append(t, c) : t \in {u \in shorter : Len(u) = n - 1},
                                          c \in TitleChars}
Titles == StringsUpTo(MaxTitleLen)

Visuals == {None, Some(""), Some("image"), Some("chart")}

GeneratedPath == <<"a","s","s","e","t","s","/","i","m","g",".","p","n","g">>
GenOutcomes == {GenRaise, GenReturn(None), GenReturn(Some(<<>>)),
                GenReturn(Some(GeneratedPath))}

SlidePool ==
    { [title |-> <<"A","l","p","h","a",":"," ","e","n","d">>,
       bullets |-> << <<"o","n","e">>, <<"t","w","o">> >>,
       visual_suggestion |-> Some("image"),
       sources |-> <<>>],
      [title |-> <<"B","e","t","a"," ","i","n","s","i","g","h","t">>,
       bullets |-> << <<"1">>, <<"2">>, <<"3">>, <<"4">>, <<"5">>, <<"6">>, <<"7">> >>,
       visual_suggestion |-> None,
       sources |-> << <<"/","w","/","n",".","t","x","t">> >>],
      [title |-> <<"G",":","f",":","g">>,
       bullets |-> << <<"x">> >>,
       visual_suggestion |-> Some("chart"),
       sources |-> <<>>],
      [title |-> <<"T",":"," ","x">>,
       bullets |-> << <<"b">> >>,
       visual_suggestion |-> Some(""),
       sources |-> <<>>] }

RECURSIVE SeqsUpTo(_, _)
SeqsUpTo(S, n) ==
    IF n = 0 THEN {<<>>}
    ELSE LET shorter == SeqsUpTo(S, n - 1)
         IN shorter \cup {Append(t, x) : t \in {u \in shorter : Len(u) = n - 1}, x \in S}

\* outlines of up to MaxOutlineSlides slides taken from the pool
PoolOutlines ==
    {[slides |-> sl, theme |-> ThemeDefaults] : sl \in SeqsUpTo(SlidePool, MaxOutlineSlides)}

\* one-slide outlines with every short title and every visual suggestion
TitleOutlines ==
    {[slides |-> <<[title |-> t, bullets |-> << <<"x">> >>,
                    visual_suggestion |-> v, sources |-> <<>>]>>,
      theme |-> ThemeDefaults] : t \in Titles, v \in Visuals}

\* outlines of 1..MaxOutlineSlides slides that repeat the pool's slides in turn
PoolOrder ==
    << CHOOSE x \in SlidePool : x.visual_suggestion = Some("image"),
       CHOOSE x \in SlidePool : x.visual_suggestion = None,
       CHOOSE x \in SlidePool : x.visual_suggestion = Some("chart") >>
RecallOutlines ==
    {[slides |-> Cyclic(PoolOrder, n), theme |-> ThemeDefaults] : n \in 1..MaxOutlineSlides}

OutlineIdle ==
    /\ request = NoRequest
    /\ fs = NoEnvironment
    /\ llm_client = None
    /\ summary = NoSummary
    /\ llm_log = <<>>

InitDesign ==
    /\ pc = "design"
    /\ outline \in PoolOutlines \cup TitleOutlines
    /\ image_generator \in {None, Some("generator")}
    /\ assets_dir \in {None, Some(AssetsPath)}
    /\ drafts = <<>>
    /\ gen_log = <<>>
    /\ design_calls = <<>>
    /\ titles = <<>>
    /\ OutlineIdle
    /\ PipelineIdle

\* a call of design_slides(outline, image_generator, assets_dir)
DesignSlides ==
    /\ pc = "design"
    /\ \E outcomes \in [1..design_invocations(outline, image_generator, assets_dir)
                           -> GenOutcomes] :
          LET r == design_slides(outline, image_generator, assets_dir, outcomes)
          IN /\ drafts' = r.drafts
             /\ gen_log' = r.calls
             /\ pc' = IF r.raised THEN "raised" ELSE "designed"
             /\ design_calls' = IF r.raised THEN design_calls
                                 ELSE Append(design_calls, Len(r.drafts))
    /\ UNCHANGED <<request, fs, llm_client, summary, outline, llm_log, image_generator,
                   assets_dir, titles,
                   argv, stage_log, written, result>>

\* the caller hands another outline to design_slides
NextOutlinePlan ==
    /\ pc = "designed"
    /\ Len(design_calls) < MaxCalls
    /\ outline' \in RecallOutlines
    /\ pc' = "design"
    /\ drafts' = <<>>
    /\ gen_log' = <<>>
    /\ UNCHANGED <<request, fs, llm_client, summary, llm_log, image_generator,
                   assets_dir, design_calls, titles,
                   argv, stage_log, written, result>>

NextDesign == DesignSlides \/ NextOutlinePlan

SpecDesign == InitDesign /\ [][NextDesign]_vars

-----------------------------------------------------------------------------
(* pathlib and formatting *)

\* the letters of Latin-1 that str.lower() changes, and what it makes of them
Upper == <<"A","B","C","D","E","F","G","H","I","J","K","L","M","N","O","P","Q","R","S","T","U","V","W","X","Y","Z","À","Á","Â","Ã","Ä","Å","Æ","Ç","È","É","Ê","Ë","Ì","Í","Î","Ï","Ð","Ñ","Ò","Ó","Ô","Õ","Ö","Ø","Ù","Ú","Û","Ü","Ý","Þ">>
LowerCase == <<"a","b","c","d","e","f","g","h","i","j","k","l","m","n","o","p","q","r","s","t","u","v","w","x","y","z","à","á","â","ã","ä","å","æ","ç","è","é","ê","ë","ì","í","î","ï","ð","ñ","ò","ó","ô","õ","ö","ø","ù","ú","û","ü","ý","þ">>
\* the other characters of Latin-1 that str.isalnum() is true of, besides 0-9
OtherAlnum == {"ª", "²", "³", "µ", "¹", "º", "¼", "½", "¾", "ß", "ÿ"}
DecimalDigits == <<"0","1","2","3","4","5","6","7","8","9">>

\* str.lower()
Lower(s) ==
    [i \in 1..Len(s) |->
        IF \E k \in 1..Len(Upper) : Upper[k] = s[i]
        THEN LowerCase[CHOOSE k \in 1..Len(Upper) : Upper[k] = s[i]]
        ELSE s[i]]

\* str(n) for n >= 0
RECURSIVE IntToStr(_)
IntToStr(n) ==
    IF n < 10 THEN <<DecimalDigits[n + 1]>>
    ELSE IntToStr(n \div 10) \o <<DecimalDigits[(n % 10) + 1]>>

\* sep.join(parts)
RECURSIVE Join(_, _)
Join(parts, sep) ==
    IF parts = <<>> THEN <<>>
    ELSE IF Len(parts) = 1 THEN parts[1]
    ELSE parts[1] \o sep \o Join(Tail(parts), sep)

\* string.replace(old, new) for a one-character old
Replace(s, old, new) == [i \in 1..Len(s) |-> IF s[i] = old THEN new ELSE s[i]]

\* index of the last occurrence of character c in s, 0 when absent
LastIndex(s, c) ==
    IF \E k \in 1..Len(s) : s[k] = c
    THEN CHOOSE k \in 1..Len(s) : s[k] = c /\ \A j \in (k + 1)..Len(s) : s[j] # c
    ELSE 0

\* str.split(sep) for a one-character sep
RECURSIVE Split(_, _)
Split(s, sep) ==
    LET k == Find(s, sep)
    IN IF k = 0 THEN <<s>> ELSE <<Take(s, k - 1)>> \o Split(Drop(s, k), sep)

\* _PosixFlavour.splitroot: "//" for exactly two leading slashes, "/" for
\* any other number of them, "" for none
PathRoot(path) ==
    LET slashes == Len(path) - Len(LStrip(path, {"/"}))
    IN IF slashes = 0 THEN <<>>
       ELSE IF slashes = 2 THEN <<"/","/">>
       ELSE <<"/">>

\* parse_parts: the components after the root; empty ones and "." are dropped
PathParts(path) ==
    LET Kept(part) == part # <<>> /\ part # <<".">>
    IN SelectSeq(Split(LStrip(path, {"/"}), "/"), Kept)

\* str(path) of the path with this root and these components
FormatPath(root, parts) ==
    IF root = <<>> /\ parts = <<>> THEN <<".">> ELSE root \o Join(parts, <<"/">>)

\* str(Path(text))
Path(text) == FormatPath(PathRoot(text), PathParts(text))

\* Path.name: the final component, "" when there is none
PathName(path) ==
    LET parts == PathParts(path)
    IN IF parts = <<>> THEN <<>> ELSE parts[Len(parts)]

\* Path.suffix: the last dot of the name and what follows it
PathSuffix(path) ==
    LET name == PathName(path)
        dot == LastIndex(name, ".")
    IN IF dot > 1 /\ dot < Len(name) THEN Drop(name, dot - 1) ELSE <<>>

\* Path.stem: the name without its suffix
PathStem(path) ==
    LET name == PathName(path)
    IN Take(name, Len(name) - Len(PathSuffix(path)))

WorkingDir == <<"/","w">>

\* the components of an absolute path with each ".." taken with the
\* component before it (a ".." at the root is dropped)
RECURSIVE collapse_dots(_, _)
collapse_dots(parts, done) ==
    IF parts = <<>> THEN done
    ELSE IF Head(parts) = <<".",".">>
    THEN collapse_dots(Tail(parts), Take(done, Max(Len(done) - 1, 0)))
    ELSE collapse_dots(Tail(parts), Append(done, Head(parts)))

\* str(path.resolve()) in a file system without symbolic links: the path
\* made absolute from the working directory
PathResolve(path) ==
    LET parts == IF PathRoot(path) = <<>>
                 THEN PathParts(WorkingDir) \o PathParts(path)
                 ELSE PathParts(path)
    IN FormatPath(<<"/">>, collapse_dots(parts, <<>>))

-----------------------------------------------------------------------------
(* data_analysis.py *)

UserFocusPrefix == <<"U","s","e","r"," ","f","o","c","u","s",":"," ">>
MissingPrefix == <<"M","i","s","s","i","n","g"," ","i","n","p","u","t"," ","n","o","t","e","d",":"," ">>
DetectedPrefix == <<"D","e","t","e","c","t","e","d"," ","i","n","p","u","t"," ","f","i","l","e",":"," ">>
ExcerptPrefix == <<"E","x","c","e","r","p","t"," ","f","r","o","m"," ">>
UnhandledPrefix == <<"U","n","h","a","n","d","l","e","d"," ","f","i","l","e"," ","t","y","p","e"," ","n","o","t","e","d",":"," ">>
LLMSummaryPrefix == <<"L","L","M"," ","s","u","m","m","a","r","y",":"," ">>
UnableToReadPrefix == <<"U","n","a","b","l","e"," ","t","o"," ","r","e","a","d"," ">>
NoPandasPrefix == <<"T","a","b","l","e"," ","d","e","t","e","c","t","e","d"," ","b","u","t"," ","p","a","n","d","a","s"," ","i","s"," ","n","o","t"," ","i","n","s","t","a","l","l","e","d",":"," ">>
ParseFailPrefix == <<"F","a","i","l","e","d"," ","t","o"," ","p","a","r","s","e"," ","t","a","b","l","e"," ">>
ParsedPrefix == <<"P","a","r","s","e","d"," ","t","a","b","l","e"," ">>
NoNumericPrefix == <<"N","o"," ","n","u","m","e","r","i","c"," ","c","o","l","u","m","n","s"," ","d","e","t","e","c","t","e","d"," ","i","n"," ">>
NoPdfPrefix == <<"P","D","F"," ","p","a","r","s","i","n","g"," ","n","o","t"," ","a","v","a","i","l","a","b","l","e"," ","(","i","n","s","t","a","l","l"," ","p","d","f","p","l","u","m","b","e","r",")"," ","f","o","r"," ">>
NoPagesPrefix == <<"P","D","F"," ","h","a","s"," ","n","o"," ","p","a","g","e","s",":"," ">>
PdfFailPrefix == <<"F","a","i","l","e","d"," ","t","o"," ","r","e","a","d"," ","P","D","F"," ">>
DefaultTopic == <<"G","e","n","e","r","a","l"," ","o","v","e","r","v","i","e","w">>
DefaultFinding == <<"S","u","m","m","a","r","i","z","e"," ","k","e","y"," ","p","o","i","n","t","s"," ","a","n","d"," ","v","i","s","u","a","l","s"," ","p","e","r"," ","S","P","E","C",".","m","d",".">>
ColonSpace == <<":"," ">>

ExcerptChars == 200
ExcerptLines == 3
TableColumns == 3

TextSuffixes == { <<".","t","x","t">>, <<".","m","d">>, <<".","m","a","r","k","d","o","w","n">> }
TableSuffixes == { <<".","c","s","v">>, <<".","t","s","v">>, <<".","x","l","s","x">> }
PdfSuffix == <<".","p","d","f">>

\* What reading or parsing a file gives: kind "fail" (the call raises, msg is
\* the exception text), "text" (the file's or first page's text), "nopages"
\* (a PDF without pages), "table" (a parsed table: its shape and the names
\* and formatted statistics of its numeric columns).
ReadFail(msg) == [kind |-> "fail", msg |-> msg]
ReadText(text) == [kind |-> "text", text |-> text]
ReadNoPages == [kind |-> "nopages"]
ReadTable(rows, cols, numeric) ==
    [kind |-> "table", rows |-> rows, cols |-> cols, numeric |-> numeric]

\* [line.strip() for line in lines if line.strip()]
RECURSIVE paragraphs_of(_)
paragraphs_of(lines) ==
    IF lines = <<>> THEN <<>>
    ELSE (IF Strip(Head(lines), Whitespace) # <<>>
          THEN <<Strip(Head(lines), Whitespace)>> ELSE <<>>)
         \o paragraphs_of(Tail(lines))

\* _read_text: (warnings, excerpt)
read_text(path, read) ==
    IF read.kind = "fail"
    THEN [findings |-> <<UnableToReadPrefix \o PathName(path) \o ColonSpace \o read.msg>>,
          excerpt |-> <<>>]
    ELSE LET paragraphs == paragraphs_of(SplitLines(read.text))
             excerpt == Join(Take(paragraphs, ExcerptLines), <<" ">>)
         IN [findings |-> <<>>, excerpt |-> Take(excerpt, ExcerptChars)]

\* _summarize_table: (findings, data_points)
summarize_table(path, pandas, read) ==
    IF ~pandas
    THEN [findings |-> <<NoPandasPrefix \o PathName(path)>>, data_points |-> <<>>]
    ELSE IF read.kind = "fail"
    THEN [findings |-> <<ParseFailPrefix \o PathName(path) \o ColonSpace \o read.msg>>,
          data_points |-> <<>>]
    ELSE LET parsed == ParsedPrefix \o PathName(path) \o <<" ","w","i","t","h"," ">>
                         \o IntToStr(read.rows) \o <<" ","r","o","w","s"," ","x"," ">>
                         \o IntToStr(read.cols) \o <<" ","c","o","l","s">>
             columns == Take(read.numeric, TableColumns)
         IN IF read.numeric = <<>>
            THEN [findings |-> <<parsed, NoNumericPrefix \o PathName(path)>>,
                  data_points |-> <<>>]
            ELSE [findings |-> <<parsed>>,
                  data_points |->
                      [i \in 1..Len(columns) |->
                          columns[i].col \o <<":"," ","m","e","a","n"," ">> \o columns[i].mean
                          \o <<","," ","m","a","x"," ">> \o columns[i].max]]

\* _summarize_pdf: (warnings, excerpt)
summarize_pdf(path, pdfplumber, read) ==
    IF ~pdfplumber
    THEN [findings |-> <<NoPdfPrefix \o PathName(path)>>, excerpt |-> <<>>]
    ELSE IF read.kind = "fail"
    THEN [findings |-> <<PdfFailPrefix \o PathName(path) \o ColonSpace \o read.msg>>,
          excerpt |-> <<>>]
    ELSE IF read.kind = "nopages"
    THEN [findings |-> <<NoPagesPrefix \o PathName(path)>>, excerpt |-> <<>>]
    ELSE [findings |-> <<>>,
          excerpt |-> Take(Replace(Strip(read.text, Whitespace), "\n", " "), ExcerptChars)]

\* path.exists(): "yes", "no" or "raise". Path.exists answers False only
\* when os.stat fails with ENOENT, ENOTDIR, EBADF or ELOOP and lets every
\* other OSError through; env.oserror holds the paths whose stat fails
\* otherwise (a name longer than the file system takes, a directory that
\* may not be searched).
path_exists(path, env) ==
    IF path \in env.oserror THEN "raise"
    ELSE IF path \in env.exists THEN "yes" ELSE "no"

capture_basic_file_metadata_sourcing_missing(path, env, acc) ==
    IF path_exists(path, env) = "raise" THEN None
    ELSE IF path_exists(path, env) = "no"
    THEN Some([acc EXCEPT !.findings = Append(@, MissingPrefix \o path),
                          !.sources = Append(@, PathResolve(path))])
    ELSE Some([acc EXCEPT !.findings = Append(@, DetectedPrefix \o PathName(path)),
                          !.sources = Append(@, PathResolve(path))])

\* _capture_basic_file_metadata on the lists collected so far: Some(lists),
\* or None when path.exists() raises
capture_basic_file_metadata(path, env, acc) ==
    IF path_exists(path, env) = "raise" THEN None
    ELSE IF path_exists(path, env) = "no"
    THEN Some([acc EXCEPT !.findings = Append(@, MissingPrefix \o path)])
    ELSE Some([acc EXCEPT !.findings = Append(@, DetectedPrefix \o PathName(path)),
                          !.sources = Append(@, PathResolve(path))])

\* the rest of the loop body of analyze_request for a path that exists
analyze_file(path, env, read, acc) ==
    LET suffix == Lower(PathSuffix(path))
        named == [acc EXCEPT !.topics = Append(@, PathStem(path))]
        WithExcerpt(r) ==
            [named EXCEPT !.findings =
                @ \o r.findings
                  \o (IF r.excerpt # <<>>
                      THEN <<ExcerptPrefix \o PathName(path) \o ColonSpace \o r.excerpt>>
                      ELSE <<>>)]
    IN IF suffix \in TextSuffixes THEN WithExcerpt(read_text(path, read))
       ELSE IF suffix \in TableSuffixes
       THEN LET t == summarize_table(path, env.pandas, read)
            IN [named EXCEPT !.findings = @ \o t.findings,
                             !.data_points = @ \o t.data_points]
       ELSE IF suffix = PdfSuffix THEN WithExcerpt(summarize_pdf(path, env.pdfplumber, read))
       ELSE [named EXCEPT !.findings = Append(@, UnhandledPrefix \o PathName(path))]

\* one pass of the loop body of analyze_request: Some(lists), or None when
\* path.exists() raises (in _capture_basic_file_metadata, the first to ask)
analyze_path(path, env, read, acc) ==
    LET noted == capture_basic_file_metadata(path, env, acc)
    IN IF noted = None \/ path_exists(path, env) = "raise" THEN None
       ELSE IF path_exists(path, env) = "no" THEN noted
       ELSE Some(analyze_file(path, env, read, noted[1]))

\* the loop of analyze_request over request.inputs from input i on:
\* Some(lists), or None when a pass raises and ends the loop
RECURSIVE analyze_from(_, _, _, _, _)
analyze_from(inputs, i, env, reads, acc) ==
    IF i > Len(inputs) THEN Some(acc)
    ELSE LET pass == analyze_path(inputs[i], env, reads[i], acc)
         IN IF pass = None THEN None
            ELSE analyze_from(inputs, i + 1, env, reads, pass[1])

summarize_with_llm_unstripped(reply) ==
    IF reply.kind = "text" /\ reply.text # <<>> THEN reply.text
    ELSE <<>>

\* _summarize_with_llm, given the reply of llm_client.generate: the call and
\* result.strip() are both inside the try, so a reply that is not text
\* gives "" as a raise does
summarize_with_llm(reply) ==
    IF reply.kind = "text" /\ reply.text # <<>> THEN Strip(reply.text, Whitespace)
    ELSE <<>>

\* `if request.instructions:` for an Optional[str]
has_instructions(req) == Truthy(req.instructions) /\ req.instructions[1] # <<>>

analyze_request_without_defaults(req, client, env, reads, reply) ==
    LET start == [topics |-> <<>>,
                  findings |-> IF has_instructions(req)
                               THEN <<UserFocusPrefix \o req.instructions[1]>>
                               ELSE <<>>,
                  data_points |-> <<>>,
                  sources |-> <<>>]
        read == analyze_from(req.inputs, 1, env, reads, start)
        llm_summary == IF Truthy(client) /\ req.use_llm
                       THEN summarize_with_llm(reply) ELSE <<>>
    IN IF read = None THEN None
       ELSE Some([read[1] EXCEPT !.findings =
                     @ \o (IF llm_summary # <<>>
                           THEN <<LLMSummaryPrefix \o llm_summary>> ELSE <<>>)])

\* analyze_request; reads[i] is what reading input i gives, reply is the
\* reply of the LLM client (used only when a client is given and use_llm set).
\* Some(summary) when it returns, None when the loop over the inputs raises
\* (the LLM is asked after the loop).
analyze_request(req, client, env, reads, reply) ==
    LET start == [topics |-> <<>>,
                  findings |-> IF has_instructions(req)
                               THEN <<UserFocusPrefix \o req.instructions[1]>>
                               ELSE <<>>,
                  data_points |-> <<>>,
                  sources |-> <<>>]
        read == analyze_from(req.inputs, 1, env, reads, start)
        llm_summary == IF Truthy(client) /\ req.use_llm
                       THEN summarize_with_llm(reply) ELSE <<>>
        findings == read[1].findings
                    \o (IF llm_summary # <<>> THEN <<LLMSummaryPrefix \o llm_summary>>
                        ELSE <<>>)
    IN IF read = None THEN None
       ELSE Some([topics |-> IF read[1].topics # <<>> THEN read[1].topics
                             ELSE <<DefaultTopic>>,
                  findings |-> IF findings # <<>> THEN findings ELSE <<DefaultFinding>>,
                  data_points |-> read[1].data_points,
                  sources |-> read[1].sources])

-----------------------------------------------------------------------------
(* Inputs of the analyzer *)

MaxInputs == 2

InputPaths ==
    { <<"i","n","/","n",".","T","X","T">>,
      <<"t",".","c","s","v">>,
      <<"d",".","p","d","f">>,
      <<"x",".","b","i","n">> }

Instructions == <<"F","o","c","u","s">>
ExcText == <<"e","r","r">>
NumericColumn(name) ==
    [col |-> <<name>>, mean |-> <<"2",".","5">>, max |-> <<"4",".","0">>]

TextReads == {ReadFail(ExcText), ReadText(<<>>),
              ReadText(<<NoBreakSpace,"a",FormFeed,NextLine,"b",UnitSeparator>>),
              ReadText(<<" ","a"," ","\n","\n","b","\n","c","\n","d">>)}
TableReads == {ReadFail(ExcText), ReadTable(12, 2, <<>>),
               ReadTable(4, 5, <<NumericColumn("p"), NumericColumn("q"),
                                  NumericColumn("r"), NumericColumn("s")>>)}
PdfReads == {ReadFail(ExcText), ReadNoPages, ReadText(<<" ","p","\n","q"," ">>)}

\* what reading a given input can give: reading a missing file fails; a
\* file of another type, or one whose parser is not installed, is not read
ReadsOf(path, env) ==
    LET suffix == Lower(PathSuffix(path))
    IN IF path_exists(path, env) # "yes" THEN {ReadFail(ExcText)}
       ELSE IF suffix \in TextSuffixes THEN TextReads
       ELSE IF suffix \in TableSuffixes /\ env.pandas THEN TableReads
       ELSE IF suffix = PdfSuffix /\ env.pdfplumber THEN PdfReads
       ELSE {ReadNoPages}

RECURSIVE ReadChoices(_, _)
ReadChoices(inputs, env) ==
    IF inputs = <<>> THEN {<<>>}
    ELSE {<<r>> \o rest : r \in ReadsOf(Head(inputs), env),
                          rest \in ReadChoices(Tail(inputs), env)}

Environments ==
    [exists : SUBSET InputPaths, oserror : {{}}, pandas : BOOLEAN, pdfplumber : BOOLEAN]

\* an input in a directory that the process may not search: os.stat fails
\* with EACCES (a name longer than a file name may be fails the same way,
\* with ENAMETOOLONG)
LockedInput == <<"l","o","c","k","e","d","/","n",".","t","x","t">>
TextInput == <<"i","n","/","n",".","T","X","T">>


\* every list of inputs and every file system, no LLM client
InitAnalyzeInputs ==
    /\ \E inputs \in SeqsUpTo(InputPaths, MaxInputs), ins \in {None, Some(Instructions)} :
          request = Request(inputs, ins, None, <<>>, FALSE)
    /\ fs \in Environments
    /\ llm_client = None

\* at most one input, an LLM client or none, LLM use requested or not
InitAnalyzeLLM ==
    /\ \E inputs \in SeqsUpTo(InputPaths, 1),
          ins \in {None, Some(<<>>), Some(Instructions)}, u \in BOOLEAN :
          request = Request(inputs, ins, None, <<>>, u)
    /\ fs \in {e \in Environments : e.pandas /\ ~e.pdfplumber}
    /\ llm_client \in {None, Some("client")}

\* inputs that are directories: the working directory and the root, whose
\* paths have no final component
DirectoryPaths == { <<".">>, <<"/">> }
InitAnalyzeDirectories ==
    /\ \E inputs \in SeqsUpTo(DirectoryPaths, MaxInputs) \ {<<>>} :
          request = Request(inputs, None, None, <<>>, FALSE)
    /\ fs = [exists |-> DirectoryPaths, oserror |-> {}, pandas |-> FALSE,
             pdfplumber |-> FALSE]
    /\ llm_client = None

\* an input whose existence cannot be asked, alone or next to one that can,
\* with an LLM client or none
InitAnalyzeOSError ==
    /\ \E inputs \in SeqsUpTo({TextInput, LockedInput}, MaxInputs),
          ins \in {None, Some(Instructions)}, u \in BOOLEAN :
          /\ \E i \in 1..Len(inputs) : inputs[i] = LockedInput
          /\ request = Request(inputs, ins, None, <<>>, u)
    /\ \E files \in SUBSET {TextInput} :
          fs = [exists |-> files, oserror |-> {LockedInput}, pandas |-> FALSE,
                pdfplumber |-> FALSE]
    /\ llm_client \in {None, Some("client")}

InitAnalyze ==
    /\ pc = "analysis"
    /\ summary = NoSummary
    /\ outline = NoOutline
    /\ llm_log = <<>>
    /\ titles = <<>>
    /\ DesignIdle
    /\ PipelineIdle
    /\ \/ InitAnalyzeInputs
       \/ InitAnalyzeLLM
       \/ InitAnalyzeDirectories
       \/ InitAnalyzeOSError

\* a call of analyze_request(request, llm_client)
AnalyzeRequest ==
    /\ pc = "analysis"
    /\ \E reads \in ReadChoices(request.inputs, fs),
          reply \in IF Truthy(llm_client) /\ request.use_llm THEN LLMReplies ELSE {LLMNone} :
          \E made \in {analyze_request(request, llm_client, fs, reads, reply)} :
             IF made = None
             THEN pc' = "raised" /\ UNCHANGED <<summary, llm_log>>
             ELSE /\ pc' = "analysed"
                  /\ summary' = made[1]
                  /\ llm_log' = IF Truthy(llm_client) /\ request.use_llm
                                THEN Append(llm_log, reply) ELSE llm_log
    /\ UNCHANGED <<request, llm_client, fs, outline, image_generator, assets_dir,
                   drafts, gen_log, design_calls, titles,
                   argv, stage_log, written, result>>

NextAnalyze == AnalyzeRequest

SpecAnalyze == InitAnalyze /\ [][NextAnalyze]_vars

-----------------------------------------------------------------------------
(* Repeated title normalisation *)

MaxApply == 2

InitTitle ==
    /\ pc = "title"
    /\ \E t \in Titles : titles = <<t>>
    /\ outline = NoOutline
    /\ OutlineIdle
    /\ DesignIdle
    /\ PipelineIdle

\* _title_as_conclusion applied to the last result
NormalizeTitle ==
    /\ pc = "title"
    /\ Len(titles) <= MaxApply
    /\ titles' = Append(titles, title_as_conclusion(titles[Len(titles)]))
    /\ UNCHANGED <<pc, request, fs, llm_client, summary, outline, llm_log, image_generator,
                   assets_dir, drafts, gen_log, design_calls,
                   argv, stage_log, written, result>>

NextTitle == NormalizeTitle

SpecTitle == InitTitle /\ [][NextTitle]_vars

-----------------------------------------------------------------------------
(* imagegen.py *)

\* base64.b64decode(_PIXEL), the 1x1 PNG
PlaceholderPng == <<"P","N","G","1","x","1">>
PromptRoute == <<"/","p","r","o","m","p","t">>
PngSuffix == <<".","p","n","g">>
ImageToken == <<"i","m","a","g","e">>
FilenameChars == 40

\* What gemini_client.generate_image does: it raises, returns None, or
\* returns bytes (possibly none at all).
ImgRaise == [kind |-> "raise", data |-> <<>>]
ImgNone == [kind |-> "none", data |-> <<>>]
ImgBytes(d) == [kind |-> "bytes", data |-> d]

\* ch.isalnum() for the characters of Latin-1
IsAlnum(c) ==
    \/ \E k \in 1..Len(Upper) : Upper[k] = c \/ LowerCase[k] = c
    \/ \E k \in 1..Len(DecimalDigits) : DecimalDigits[k] = c
    \/ c \in OtherAlnum

\* _safe_filename
safe_filename(prompt) ==
    LET token == Take([i \in 1..Len(prompt) |->
                          IF IsAlnum(prompt[i]) THEN prompt[i] ELSE "_"], FilenameChars)
    IN (IF token # <<>> THEN token ELSE ImageToken) \o PngSuffix

\* str(assets_dir / name): the components of name after those of
\* assets_dir, or name alone when it has a root
PathJoin(dir, name) ==
    IF PathRoot(name) # <<>> THEN Path(name)
    ELSE FormatPath(PathRoot(dir), PathParts(dir) \o PathParts(name))

\* str.startswith
HasPrefix(s, prefix) == Len(s) >= Len(prefix) /\ SubSeq(s, 1, Len(prefix)) = prefix

UrlMark == <<"U","R","L",":">>

\* urllib.parse.unwrap: blanks around the url, a pair of angle brackets
\* and a leading "URL:" are taken off
unwrap(url) ==
    LET stripped == Strip(url, Whitespace)
        bare == IF stripped # <<>> /\ stripped[1] = "<" /\ stripped[Len(stripped)] = ">"
                THEN Strip(SubSeq(stripped, 2, Len(stripped) - 1), Whitespace)
                ELSE stripped
    IN IF HasPrefix(bare, UrlMark) THEN Strip(Drop(bare, Len(UrlMark)), Whitespace)
       ELSE bare

\* urllib.parse._splittag: the url without its fragment, what follows the last "#"
splittag(url) ==
    IF LastIndex(url, "#") > 0 THEN Take(url, LastIndex(url, "#") - 1) ELSE url

\* urllib.request.Request(url) finds a type in url (and raises ValueError
\* otherwise): after unwrap and _splittag the url starts with one or more
\* characters other than "/" and ":", then ":"
has_url_type(url) ==
    LET full_url == splittag(unwrap(url))
        colon == Find(full_url, ":")
        slash == Find(full_url, "/")
    IN colon > 1 /\ (slash = 0 \/ colon < slash)

\* generate_image(prompt, assets_dir, backend, endpoint, gemini_client); world
\* holds what the client's generate_image does, whether urlopen succeeds, and
\* the local step that fails or "ok": "mkdir", "write" (every write_bytes
\* fails), "bytes" (only the write of the client's bytes fails, as on a disk
\* without room for them: the except of the gemini branch catches it and the
\* placeholder is written).  The value gives how the call ends, the files it
\* writes and the remote calls it makes.
generate_image(prompt, dir, backend, endpoint, client, world) ==
    LET output == PathJoin(dir, safe_filename(prompt))
        use_gemini == backend = "gemini" /\ Truthy(client)
        got_bytes == use_gemini /\ world.gemini.kind = "bytes" /\ world.gemini.data # <<>>
        use_comfy == backend = "comfy" /\ Truthy(endpoint) /\ endpoint[1] # <<>>
        url == IF use_comfy THEN RStrip(endpoint[1], {"/"}) \o PromptRoute ELSE <<>>
        gemini_calls == IF use_gemini THEN <<world.gemini>> ELSE <<>>
        comfy_calls == IF use_comfy
                       THEN <<[kind |-> "comfy", url |-> url, ok |-> world.comfy]>>
                       ELSE <<>>
        Raise(calls) == [kind |-> "raise", path |-> None, writes |-> <<>>, calls |-> calls]
    IN IF world.disk = "mkdir" THEN Raise(<<>>)
       ELSE IF got_bytes /\ world.disk # "bytes"
       THEN IF world.disk = "write" THEN Raise(gemini_calls)
            ELSE [kind |-> "return", path |-> Some(output),
                  writes |-> <<[path |-> output, content |-> [kind |-> "png", data |-> world.gemini.data]]>>,
                  calls |-> gemini_calls]
       ELSE IF use_comfy /\ ~has_url_type(url) THEN Raise(gemini_calls)
       ELSE IF world.disk = "write" THEN Raise(gemini_calls \o comfy_calls)
       ELSE [kind |-> "return", path |-> Some(output),
             writes |-> <<[path |-> output, content |-> [kind |-> "png", data |-> PlaceholderPng]]>>,
             calls |-> gemini_calls \o comfy_calls]

-----------------------------------------------------------------------------
(* Inputs of the image generator *)

LongPrompt == [i \in 1..(FilenameChars + 2) |-> IF i <= FilenameChars THEN "p" ELSE "q"]
Prompts == { <<>>, <<"V","i","s","u","a","l"," ","f","o","r"," ","Q","3",":"," ","x">>,
             <<"C","a","f","é"," ","²","½","÷","_">>,
             LongPrompt }
GeminiPng == <<"P","N","G","g">>
ImageReplies == {ImgRaise, ImgNone, ImgBytes(<<>>), ImgBytes(GeminiPng)}
Endpoints == { None, Some(<<>>),
               Some(<<"h","t","t","p",":","/","/","h",":","8","/">>),
               Some(<<"h","o","s","t">>),
               Some(<<" ","<","U","R","L",":","h",":","8",">","/">>),
               Some(<<"U","R","L",":","x">>) }
Backends == {"comfy", "gemini", "other"}
DiskOutcomes == {"ok", "mkdir", "write", "bytes"}
ImageDirs == {AssetsPath, <<".">>, <<"/">>}
ImageWorlds == [gemini : ImageReplies, comfy : BOOLEAN, disk : DiskOutcomes]

InitImage ==
    /\ pc = "image"
    /\ \E backend \in Backends, endpoint \in Endpoints :
          request = [NoRequest EXCEPT !.image_backend = backend,
                                      !.image_endpoint = endpoint]
    /\ llm_client \in {None, Some("client")}
    /\ fs = NoEnvironment
    /\ summary = NoSummary
    /\ outline = NoOutline
    /\ llm_log = <<>>
    /\ image_generator = None
    /\ \E dir \in ImageDirs : assets_dir = Some(dir)
    /\ drafts = <<>>
    /\ gen_log = <<>>
    /\ design_calls = <<>>
    /\ titles = <<>>
    /\ PipelineIdle

\* a call of generate_image(prompt, assets_dir, backend, endpoint, gemini_client)
GenerateImage ==
    /\ pc = "image"
    /\ \E prompt \in Prompts, world \in ImageWorlds :
          LET r == generate_image(prompt, assets_dir[1], request.image_backend,
                                  request.image_endpoint, llm_client, world)
          IN /\ result' = Some([kind |-> r.kind, path |-> r.path])
             /\ written' = written \o r.writes
             /\ llm_log' = llm_log \o r.calls
             /\ gen_log' = <<[slide |-> 0, prompt |-> prompt, assets_dir |-> assets_dir[1],
                              disk |-> world.disk]>>
    /\ pc' = "imaged"
    /\ UNCHANGED <<request, fs, llm_client, summary, outline, image_generator,
                   assets_dir, drafts, design_calls, titles, argv, stage_log>>

NextImage == GenerateImage

SpecImage == InitImage /\ [][NextImage]_vars

-----------------------------------------------------------------------------
(* assembler.py *)

PreviewHeader == <<"#"," ","A","u","t","o"," ","P","r","e","s","e","n","t","a","t","i","o","n"," ","A","g","e","n","t"," ","P","r","e","v","i","e","w">>
SlideHeading == <<"#","#"," ","S","l","i","d","e"," ">>
BulletMark == <<"-"," ">>
AssetsMark == <<"_","A","s","s","e","t","s","_",":"," ">>
SourcesMark == <<"_","S","o","u","r","c","e","s","_",":"," ">>
NotesMark == <<"_","N","o","t","e","s","_",":"," ">>
CommaSpace == <<","," ">>
MdSuffix == <<".","m","d">>
AssemblyNotes == <<"G","e","n","e","r","a","t","e","d"," ","P","P","T","X"," ","w","i","t","h"," ","s","i","m","p","l","e"," ","t","i","t","l","e","/","b","o","d","y"," ","l","a","y","o","u","t","s",";"," ","m","a","r","k","d","o","w","n"," ","p","r","e","v","i","e","w"," ","e","m","i","t","t","e","d"," ","f","o","r"," ","q","u","i","c","k"," ","i","n","s","p","e","c","t","i","o","n",".">>
DefaultFont == <<"S","e","g","o","e"," ","U","I">>
HomeDir == <<"/","h","o","m","e","/","u">>

\* str(asset.type) for the type tags
TypeText(type) ==
    CASE type = "image" -> <<"i","m","a","g","e">>
      [] type = "chart" -> <<"c","h","a","r","t">>
      [] type = "background" -> <<"b","a","c","k","g","r","o","u","n","d">>

\* `if slide.notes:` for an Optional[str]
has_notes(slide) == Truthy(slide.notes) /\ slide.notes[1] # <<>>

slide_lines_notes_first(slide, idx) ==
    <<SlideHeading \o IntToStr(idx) \o ColonSpace \o slide.title>>
    \o [j \in 1..Len(slide.bullets) |-> BulletMark \o slide.bullets[j]]
    \o (IF slide.assets # <<>>
        THEN <<AssetsMark \o Join([k \in 1..Len(slide.assets) |->
                                      TypeText(slide.assets[k].type)], CommaSpace)>>
        ELSE <<>>)
    \o (IF has_notes(slide) THEN <<NotesMark \o slide.notes[1]>> ELSE <<>>)
    \o (IF slide.sources # <<>>
        THEN <<SourcesMark \o Join(slide.sources, CommaSpace)>> ELSE <<>>)
    \o << <<>> >>

\* the lines one pass of the loop of _render_preview appends, for slide idx (from 1)
slide_lines(slide, idx) ==
    <<SlideHeading \o IntToStr(idx) \o ColonSpace \o slide.title>>
    \o [j \in 1..Len(slide.bullets) |-> BulletMark \o slide.bullets[j]]
    \o (IF slide.assets # <<>>
        THEN <<AssetsMark \o Join([k \in 1..Len(slide.assets) |->
                                      TypeText(slide.assets[k].type)], CommaSpace)>>
        ELSE <<>>)
    \o (IF slide.sources # <<>>
        THEN <<SourcesMark \o Join(slide.sources, CommaSpace)>> ELSE <<>>)
    \o (IF has_notes(slide) THEN <<NotesMark \o slide.notes[1]>> ELSE <<>>)
    \o << <<>> >>

\* the loop of _render_preview from slide idx on; lines holds what was appended
RECURSIVE preview_lines(_, _, _)
preview_lines(slides, idx, lines) ==
    IF idx > Len(slides) THEN lines
    ELSE preview_lines(slides, idx + 1, lines \o slide_lines(slides[idx], idx))

\* _render_preview
render_preview(slides) ==
    Join(preview_lines(slides, 1, <<PreviewHeader, <<>>>>), <<"\n">>)

\* _resolve_palette: the light palette for a name whose lower case is
\* "light", the dark one otherwise
resolve_palette(name) ==
    IF Truthy(name) /\ name[1] # <<>> /\ Lower(name[1]) = <<"l","i","g","h","t">>
    THEN "light" ELSE "dark"

\* _build_presentation: what the deck is rendered from
build_presentation(slides, theme) ==
    [font |-> IF "font" \in DOMAIN theme THEN theme["font"] ELSE DefaultFont,
     palette |-> resolve_palette(IF "palette" \in DOMAIN theme
                                 THEN Some(theme["palette"]) ELSE None),
     slides |-> slides]

\* os.path.expanduser for one component "~" or "~name": the home
\* directory of $HOME or of the named user in the password database users
\* (a function from names to home directories) without its trailing
\* slashes, and the component unchanged for a name the database lacks
os_expanduser(first, users) ==
    LET name == Drop(first, 1)
        Home(userhome) == IF RStrip(userhome, {"/"}) = <<>> THEN <<"/">>
                          ELSE RStrip(userhome, {"/"})
    IN IF name = <<>> THEN Home(HomeDir)
       ELSE IF name \in DOMAIN users THEN Home(users[name])
       ELSE first

\* Path.expanduser: <<str(path)>>, or <<>> when it raises RuntimeError.  A
\* path without root whose first component starts with "~" gets the home
\* directory in place of that component; it raises when none is found.
expanduser(path, users) ==
    LET parts == PathParts(path)
    IN IF PathRoot(path) = <<>> /\ parts # <<>> /\ parts[1][1] = "~"
       THEN LET homedir == os_expanduser(parts[1], users)
            IN IF homedir[1] = "~" THEN None
               ELSE Some(FormatPath(PathRoot(homedir),
                                    PathParts(homedir) \o Tail(parts)))
       ELSE Some(Path(path))

\* Path.with_suffix: <<str(path)>> with the suffix of the name replaced,
\* or <<>> when it raises ValueError for a path with an empty name
with_suffix(path, suffix) ==
    LET parts == PathParts(path)
        name == PathName(path)
        renamed == Take(name, Len(name) - Len(PathSuffix(path))) \o suffix
    IN IF name = <<>> THEN None
       ELSE Some(FormatPath(PathRoot(path),
                            Append(Take(parts, Len(parts) - 1), renamed)))

\* a path without a final component, or ending in "..", names a directory
names_directory(path) == PathName(path) \in {<<>>, <<".",".">>}

assemble_preview_optional(slides, requested_output, theme, world) ==
    LET expanded == expanduser(requested_output, world.users)
        output == IF Truthy(expanded) THEN expanded[1] ELSE <<>>
        presentation == build_presentation(slides, IF Truthy(theme) THEN theme[1] ELSE <<>>)
        deck == [path |-> output, content |-> [kind |-> "pptx", data |-> presentation]]
        renamed == with_suffix(output, MdSuffix)
        preview_path == IF Truthy(renamed) THEN renamed[1] ELSE <<>>
        preview == [path |-> preview_path,
                    content |-> [kind |-> "md", data |-> render_preview(slides)]]
    IN IF expanded = None \/ world.disk \in {"mkdir", "save"} \/ names_directory(output)
       THEN [kind |-> "raise", writes |-> <<>>]
       ELSE [kind |-> "return",
             writes |-> IF world.disk = "write" THEN <<deck>> ELSE <<deck, preview>>,
             requested_output |-> output,
             preview_path |-> preview_path,
             slides_built |-> Len(slides),
             notes |-> AssemblyNotes]

\* assemble(slides, requested_output, theme); world holds the password
\* database (users) and the local step that fails ("mkdir", "save", "write")
\* or "ok" (disk).  The value gives how the call ends, the files it writes
\* in order and the fields of AssemblyResult.  presentation.save raises for
\* an output path that names a directory, whatever the world.
assemble(slides, requested_output, theme, world) ==
    LET expanded == expanduser(requested_output, world.users)
        output == IF Truthy(expanded) THEN expanded[1] ELSE <<>>
        presentation == build_presentation(slides, IF Truthy(theme) THEN theme[1] ELSE <<>>)
        deck == [path |-> output, content |-> [kind |-> "pptx", data |-> presentation]]
        renamed == with_suffix(output, MdSuffix)
        preview_path == IF Truthy(renamed) THEN renamed[1] ELSE <<>>
        preview == [path |-> preview_path,
                    content |-> [kind |-> "md", data |-> render_preview(slides)]]
    IN IF expanded = None \/ world.disk \in {"mkdir", "save"} \/ names_directory(output)
       THEN [kind |-> "raise", writes |-> <<>>]
       ELSE IF world.disk = "write"
       THEN [kind |-> "raise", writes |-> <<deck>>]
       ELSE [kind |-> "return",
             writes |-> <<deck, preview>>,
             requested_output |-> output,
             preview_path |-> preview_path,
             slides_built |-> Len(slides),
             notes |-> AssemblyNotes]

-----------------------------------------------------------------------------
(* Inputs of the assembler *)

MaxDrafts == 2

ImageAsset == [type |-> "image", path |-> None,
               prompt |-> Some(<<"s","o","m","e","t","h","i","n","g">>), data_ref |-> None]
ChartAsset == [type |-> "chart", path |-> None, prompt |-> None, data_ref |-> None]

DraftPool ==
    { [title |-> <<"E","x","a","m","p","l","e"," ","T","i","t","l","e">>,
       bullets |-> << <<"F","i","r","s","t"," ","p","o","i","n","t">>, <<"S","e","c","o","n","d"," ","p","o","i","n","t">> >>,
       layout |-> "split", assets |-> <<ImageAsset>>,
       notes |-> Some(DraftNotes), sources |-> <<>>],
      [title |-> <<"T">>, bullets |-> <<>>,
       layout |-> "stacked", assets |-> <<>>,
       notes |-> None,
       sources |-> << <<"/","w","/","n",".","t","x","t">>, <<"/","w","/","t",".","c","s","v">> >>],
      [title |-> <<>>, bullets |-> << <<"x">> >>,
       layout |-> "focus", assets |-> <<ChartAsset, ImageAsset>>,
       notes |-> Some(<<"n">>), sources |-> << <<"s">> >>],
      [title |-> <<"E">>, bullets |-> << <<"y">> >>,
       layout |-> "split", assets |-> <<>>,
       notes |-> Some(<<>>), sources |-> <<>>] }

OutputPaths == { <<"o","u","t","/","d","e","c","k",".","p","p","t","x">>,
                 <<"d","e","c","k">>,
                 <<"~","/","d",".","v","1",".","p","p","t","x">>,
                 <<"~","r","o","o","t","/","d",".","p","p","t","x">>,
                 <<"~","n","o","b","o","d","y","/","d",".","p","p","t","x">>,
                 <<"~","g","h","o","s","t","/","d",".","p","p","t","x">>,
                 <<".">>,
                 <<"o","u","t","/","n","o","t","e","s",".","m","d">> }
AssemblyThemes == {None, Some([k \in {"palette"} |-> <<"l","I","G","H","T">>]), Some(ThemeDefaults)}
AssemblyWorlds == {"ok", "mkdir", "save", "write"}

\* a password database: root, daemon and nobody with their usual homes
UsualUsers ==
    [name \in {<<"r","o","o","t">>, <<"d","a","e","m","o","n">>, <<"n","o","b","o","d","y">>} |->
        CASE name = <<"r","o","o","t">> -> <<"/","r","o","o","t">>
          [] name = <<"d","a","e","m","o","n">> -> <<"/","u","s","r","/","s","b","i","n">>
          [] name = <<"n","o","b","o","d","y">> -> <<"/","n","o","n","e","x","i","s","t","e","n","t">>]


InitAssemble ==
    /\ pc = "assembly"
    /\ drafts \in SeqsUpTo(DraftPool, MaxDrafts)
    /\ \E path \in OutputPaths : request = [NoRequest EXCEPT !.output_path = path]
    /\ \E theme \in AssemblyThemes : outline = [slides |-> <<>>, theme |-> theme]
    /\ fs = [NoEnvironment EXCEPT !.users = UsualUsers]
    /\ llm_client = None
    /\ summary = NoSummary
    /\ llm_log = <<>>
    /\ image_generator = None
    /\ assets_dir = None
    /\ gen_log = <<>>
    /\ design_calls = <<>>
    /\ titles = <<>>
    /\ PipelineIdle

\* a call of assemble(drafts, requested_output, theme)
Assemble ==
    /\ pc = "assembly"
    /\ \E disk \in AssemblyWorlds :
          LET r == assemble(drafts, request.output_path, outline.theme,
                            [disk |-> disk, users |-> fs.users])
          IN /\ written' = written \o r.writes
             /\ result' = Some([f \in DOMAIN r \ {"writes"} |-> r[f]])
             /\ pc' = IF r.kind = "return" THEN "assembled" ELSE "raised"
    /\ UNCHANGED <<request, fs, llm_client, summary, outline, llm_log, image_generator,
                   assets_dir, drafts, gen_log, design_calls, titles, argv, stage_log>>

NextAssemble == Assemble

SpecAssemble == InitAssemble /\ [][NextAssemble]_vars

-----------------------------------------------------------------------------
(* main.py *)

\* parser.parse_args: --input has nargs="*", default [] and the store
\* action, so args.input is the list of Path(text) for the texts of the
\* last --input option
parse_input(args) ==
    IF args = <<>> THEN <<>>
    ELSE [i \in 1..Len(args[Len(args)]) |-> Path(args[Len(args)][i])]

\* _expand_inputs: (resolved, missing), or raised when expanduser or
\* path.exists() raises for one of the paths
expand_inputs(paths, env) ==
    LET expansions == [i \in 1..Len(paths) |-> expanduser(paths[i], env.users)]
        raised == \E i \in 1..Len(paths) :
                     \/ expansions[i] = None
                     \/ path_exists(expansions[i][1], env) = "raise"
        expanded == [i \in 1..Len(paths) |-> expansions[i][1]]
        Exists(path) == path_exists(path, env) = "yes"
        Missing(path) == path_exists(path, env) = "no"
    IN IF raised THEN [raised |-> TRUE, resolved |-> <<>>, missing |-> <<>>]
       ELSE [raised |-> FALSE,
             resolved |-> SelectSeq(expanded, Exists),
             missing |-> SelectSeq(expanded, Missing)]

\* main up to the call of run_pipeline; options holds the other parsed
\* arguments.  The value is "error" when parser.error ends the process,
\* "raise" when an exception of expanduser or of path.exists() ends it, and
\* "run" with the request given to run_pipeline otherwise.
main(args, options, env) ==
    LET inputs == expand_inputs(parse_input(args), env)
        output_path == expanduser(options.output_path, env.users)
        assets == expanduser(options.assets_dir, env.users)
        Ended(kind) == [kind |-> kind, request |-> None]
    IN IF inputs.raised THEN Ended("raise")
       ELSE IF inputs.missing # <<>> THEN Ended("error")
       ELSE IF inputs.resolved = <<>> THEN Ended("error")
       ELSE IF output_path = None \/ assets = None THEN Ended("raise")
       ELSE [kind |-> "run",
             request |-> Some([options EXCEPT !.inputs = inputs.resolved,
                                              !.output_path = output_path[1],
                                              !.assets_dir = assets[1]])]

-----------------------------------------------------------------------------
(* pipeline.py *)

Stages == <<"analysis", "outline", "design", "assembly">>

\* run_pipeline, lines 30-32: the client is built for use_llm and provider
\* gemini when GEMINI_API_KEY is set
build_client(req, env) ==
    IF /\ req.use_llm
       /\ Lower(IF Truthy(req.llm_provider) THEN req.llm_provider[1] ELSE <<>>) = GeminiProvider
       /\ env.api_key
    THEN Some("client") ELSE None

\* the arguments run_pipeline gives to each stage
analysis_args(req, client) == [request |-> req, llm_client |-> client]

outline_args(req, sum, client) ==
    [summary |-> sum, duration_minutes |-> req.duration_minutes,
     style_prefs |-> req.style_prefs, llm_client |-> client, use_llm |-> req.use_llm]

design_args(req, plan) ==
    [outline |-> plan, image_generator |-> Some("generator"),
     assets_dir |-> Some(req.assets_dir)]

assembly_args(req, slides, plan) ==
    [slides |-> slides, requested_output |-> req.output_path, theme |-> Some(plan.theme)]

\* _run_stage: the start is logged, the stage is called, and its return is
\* logged unless it raised
StageStart(stage, args) == [stage |-> stage, ev |-> "start", args |-> args]
StageEnd(stage, raised) ==
    [stage |-> stage, ev |-> IF raised THEN "raise" ELSE "end", args |-> <<>>]

\* the closure image_generator of run_pipeline, called by design_slides with
\* prompts[k] on its k-th invocation, in the world worlds[k]
pipeline_images(req, client, dir, prompts, worlds) ==
    [k \in 1..Len(prompts) |->
        generate_image(prompts[k], dir, req.image_backend, req.image_endpoint,
                       client, worlds[k])]

\* the prompts design_slides passes to the generator, in order
design_prompts(plan, generator, dir) ==
    LET dry == design_slides(plan, generator, dir,
                             [k \in 1..design_invocations(plan, generator, dir)
                                 |-> GenReturn(None)])
    IN [k \in 1..Len(dry.calls) |-> dry.calls[k].prompt]

RECURSIVE Flatten(_, _, _)
Flatten(seqs, i, acc) ==
    IF i > Len(seqs) THEN acc ELSE Flatten(seqs, i + 1, acc \o seqs[i])

-----------------------------------------------------------------------------
(* Inputs of the command line and the pipeline *)

MaxOptions == 2
MaxPipelineSlides == 2

TildeInput == <<"~","/","n",".","t","x","t">>
TableInput == <<"/","w","/","t",".","c","s","v">>
CliFiles == { HomeDir \o <<"/","n",".","t","x","t">>, TableInput }
PathLists == { <<>>, <<TildeInput>>, <<TableInput>>, <<TildeInput, TableInput>> }

PipelineReplies == {LLMRaise, LLMNonText, LLMText(<<"-"," ","a","\n","-"," ","b"," ">>)}
PipelineImageWorlds ==
    [gemini : {ImgRaise, ImgBytes(GeminiPng)}, comfy : {FALSE}, disk : {"ok", "mkdir"}]
PipelineOutput == <<"o","u","t","/","d","e","c","k",".","p","p","t","x">>
DarkPrefs == [k \in {"palette"} |-> <<"d","a","r","k">>]

Options(duration, use_llm, provider, backend, endpoint) ==
    [Request(<<>>, None, duration, DarkPrefs, use_llm)
        EXCEPT !.llm_provider = provider, !.image_backend = backend,
               !.image_endpoint = endpoint, !.output_path = PipelineOutput]

\* every command line over every set of existing files, no LLM
InitPipelineCli ==
    /\ argv \in SeqsUpTo(PathLists, MaxOptions)
    /\ \E files \in SUBSET CliFiles :
          fs = [exists |-> files, pandas |-> FALSE, pdfplumber |-> FALSE, api_key |-> FALSE, oserror |-> {},
             users |-> UsualUsers]
    /\ request = Options(Some(1), FALSE, Some(GeminiProvider), "comfy", None)

\* one text input that exists; the LLM and image options vary
InitPipelineOptions ==
    /\ argv = << <<TildeInput>> >>
    /\ \E key \in BOOLEAN :
          fs = [exists |-> CliFiles, pandas |-> FALSE, pdfplumber |-> FALSE, api_key |-> key, oserror |-> {},
                users |-> UsualUsers]
    /\ \E d \in {1, MaxPipelineSlides}, use_llm \in BOOLEAN,
          provider \in {None, Some(<<"G","e","m","i","n","i">>), Some(<<"o","t","h","e","r">>)},
          image \in {<<"comfy", None>>, <<"comfy", Some(<<"h","o","s","t">>)>>,
                     <<"gemini", None>>} :
          /\ (~use_llm \/ ~fs.api_key) => provider = Some(<<"G","e","m","i","n","i">>)
          /\ request = Options(Some(d), use_llm, provider, image[1], image[2])

\* two inputs that exist, given in one option; the duration is absent, not
\* positive, or the largest of the model
InitPipelineDurations ==
    /\ argv = << <<TildeInput, TableInput>> >>
    /\ fs = [exists |-> CliFiles, pandas |-> FALSE, pdfplumber |-> FALSE, api_key |-> FALSE, oserror |-> {},
             users |-> UsualUsers]
    /\ \E d \in {None, Some(0), Some(-1), Some(MaxPipelineSlides)} :
          request = Options(d, FALSE, Some(GeminiProvider), "comfy", None)

RootInput == <<"~","r","o","o","t","/","n",".","t","x","t">>
NobodyInput == <<"~","n","o","b","o","d","y","/","n",".","t","x","t">>
GhostInput == <<"~","g","h","o","s","t","/","n",".","t","x","t">>

\* inputs, output and assets directory under the home directory of a named
\* user, known or not, or given as the working directory
InitPipelineUsers ==
    /\ argv \in { << <<RootInput>> >>, << <<NobodyInput>> >>, << <<GhostInput>> >>,
                  << <<TildeInput, RootInput>> >>, << << <<".","/">> >> >> }
    /\ fs = [exists |-> CliFiles \cup {<<".">>, UsualUsers[<<"r","o","o","t">>] \o <<"/","n",".","t","x","t">>},
             pandas |-> FALSE, pdfplumber |-> FALSE, api_key |-> FALSE, oserror |-> {},
             users |-> UsualUsers]
    /\ \E output \in {PipelineOutput,
                       <<"~","r","o","o","t","/","d",".","p","p","t","x">>,
                       <<"~","n","o","b","o","d","y","/","d",".","p","p","t","x">>,
                       <<"~","g","h","o","s","t","/","d",".","p","p","t","x">>},
          dir \in {AssetsPath, <<".">>, <<"~","g","h","o","s","t">>} :
          request = [Options(Some(1), FALSE, Some(GeminiProvider), "comfy", None)
                        EXCEPT !.output_path = output, !.assets_dir = dir]

\* an input whose existence cannot be asked, alone or after one that exists
InitPipelineOSError ==
    /\ argv \in { << <<LockedInput>> >>, << <<TableInput, LockedInput>> >> }
    /\ fs = [exists |-> CliFiles, pandas |-> FALSE, pdfplumber |-> FALSE,
             api_key |-> FALSE, oserror |-> {LockedInput}, users |-> UsualUsers]
    /\ request = Options(Some(1), FALSE, Some(GeminiProvider), "comfy", None)

InitPipeline ==
    /\ pc = "main"
    /\ \/ InitPipelineCli
       \/ InitPipelineOptions
       \/ InitPipelineDurations
       \/ InitPipelineUsers
       \/ InitPipelineOSError
    /\ llm_client = None
    /\ summary = NoSummary
    /\ outline = NoOutline
    /\ llm_log = <<>>
    /\ titles = <<>>
    /\ DesignIdle
    /\ stage_log = <<>>
    /\ written = <<>>
    /\ result = None

\* main: the inputs are resolved and run_pipeline is called, or the process ends
Main ==
    /\ pc = "main"
    /\ \E made \in {main(argv, request, fs)} :
          IF made.kind = "run"
          THEN pc' = "pipeline" /\ request' = made.request[1]
          ELSE /\ pc' = IF made.kind = "error" THEN "aborted" ELSE "crashed"
               /\ UNCHANGED request
    /\ UNCHANGED <<fs, llm_client, summary, outline, llm_log, image_generator,
                   assets_dir, drafts, gen_log, design_calls, titles, argv, stage_log,
                   written, result>>

\* run_pipeline, lines 30-32
BuildClient ==
    /\ pc = "pipeline"
    /\ llm_client' = build_client(request, fs)
    /\ pc' = "analysis"
    /\ UNCHANGED <<request, fs, summary, outline, llm_log, image_generator,
                   assets_dir, drafts, gen_log, design_calls, titles, argv, stage_log,
                   written, result>>

\* _run_stage("analysis", analyze_request, request, llm_client)
StageAnalysis ==
    /\ pc = "analysis"
    /\ LET args == analysis_args(request, llm_client)
           asks == Truthy(args.llm_client) /\ args.request.use_llm
       IN \E reads \in ReadChoices(args.request.inputs, fs),
             reply \in IF asks THEN PipelineReplies ELSE {LLMNone} :
          \E made \in {analyze_request(args.request, args.llm_client, fs, reads, reply)} :
             /\ stage_log' = stage_log \o <<StageStart("analysis", args),
                                            StageEnd("analysis", made = None)>>
             /\ IF made = None
                THEN pc' = "failed" /\ UNCHANGED <<summary, llm_log>>
                ELSE /\ pc' = "outline"
                     /\ summary' = made[1]
                     /\ llm_log' = IF asks THEN Append(llm_log, reply) ELSE llm_log
    /\ UNCHANGED <<request, fs, llm_client, outline, image_generator,
                   assets_dir, drafts, gen_log, design_calls, titles, argv,
                   written, result>>

StageOutline_cutting_topics ==
    /\ pc = "outline"
    /\ LET args == outline_args(request, summary, llm_client)
           n == outline_llm_calls(args.summary, args.duration_minutes,
                                  args.llm_client, args.use_llm)
       IN \E replies \in [1..n -> PipelineReplies] :
          \E plan \in {generate_outline(args.summary, args.duration_minutes,
                                         args.style_prefs, args.llm_client,
                                         args.use_llm, replies)} :
             /\ summary' = [summary EXCEPT !.topics =
                               Take(@, estimate_slide_count(args.summary,
                                                            args.duration_minutes))]
             /\ llm_log' = llm_log \o llm_calls_made(replies)
             /\ stage_log' = stage_log \o <<StageStart("outline", args),
                                            StageEnd("outline", plan = None)>>
             /\ IF plan = None
                THEN pc' = "failed" /\ UNCHANGED outline
                ELSE pc' = "design" /\ outline' = plan[1]
    /\ UNCHANGED <<request, fs, llm_client, image_generator,
                   assets_dir, drafts, gen_log, design_calls, titles, argv,
                   written, result>>

\* _run_stage("outline", generate_outline, summary, duration_minutes,
\* style_prefs, llm_client, use_llm)
StageOutline ==
    /\ pc = "outline"
    /\ LET args == outline_args(request, summary, llm_client)
           n == outline_llm_calls(args.summary, args.duration_minutes,
                                  args.llm_client, args.use_llm)
       IN \E replies \in [1..n -> PipelineReplies] :
          \E plan \in {generate_outline(args.summary, args.duration_minutes,
                                         args.style_prefs, args.llm_client,
                                         args.use_llm, replies)} :
             /\ llm_log' = llm_log \o llm_calls_made(replies)
             /\ stage_log' = stage_log \o <<StageStart("outline", args),
                                            StageEnd("outline", plan = None)>>
             /\ IF plan = None
                THEN pc' = "failed" /\ UNCHANGED outline
                ELSE pc' = "design" /\ outline' = plan[1]
    /\ UNCHANGED <<request, fs, llm_client, summary, image_generator,
                   assets_dir, drafts, gen_log, design_calls, titles, argv,
                   written, result>>

\* _run_stage("design", design_slides, outline, image_generator, assets_dir)
StageDesign ==
    /\ pc = "design"
    /\ LET args == design_args(request, outline)
           prompts == design_prompts(args.outline, args.image_generator, args.assets_dir)
       IN \E worlds \in [1..Len(prompts) -> PipelineImageWorlds] :
             \E images \in {pipeline_images(request, llm_client, args.assets_dir[1],
                                             prompts, worlds)} :
             \E r \in {design_slides(args.outline, args.image_generator, args.assets_dir,
                                     [k \in 1..Len(prompts) |->
                                         IF images[k].kind = "raise" THEN GenRaise
                                         ELSE GenReturn(images[k].path)])} :
                /\ drafts' = r.drafts
                /\ gen_log' = r.calls
                /\ design_calls' = IF r.raised THEN design_calls
                                    ELSE Append(design_calls, Len(r.drafts))
                /\ written' = Flatten([k \in 1..Len(r.calls) |-> images[k].writes],
                                      1, written)
                /\ llm_log' = Flatten([k \in 1..Len(r.calls) |-> images[k].calls],
                                      1, llm_log)
                /\ stage_log' = stage_log \o <<StageStart("design", args),
                                               StageEnd("design", r.raised)>>
                /\ pc' = IF r.raised THEN "failed" ELSE "assembly"
                /\ image_generator' = args.image_generator
                /\ assets_dir' = args.assets_dir
    /\ UNCHANGED <<request, fs, llm_client, summary, outline, titles, argv, result>>

\* _run_stage("assembly", assemble, drafts, requested_output, theme), and
\* the return to main
StageAssembly ==
    /\ pc = "assembly"
    /\ LET args == assembly_args(request, drafts, outline)
       IN \E disk \in AssemblyWorlds :
             \E r \in {assemble(args.slides, args.requested_output, args.theme,
                                [disk |-> disk, users |-> fs.users])} :
                /\ written' = written \o r.writes
                /\ result' = Some([f \in DOMAIN r \ {"writes"} |-> r[f]])
                /\ stage_log' = stage_log \o <<StageStart("assembly", args),
                                               StageEnd("assembly", r.kind = "raise")>>
                /\ pc' = IF r.kind = "return" THEN "completed" ELSE "failed"
    /\ UNCHANGED <<request, fs, llm_client, summary, outline, llm_log, image_generator,
                   assets_dir, drafts, gen_log, design_calls, titles, argv>>

RunPipeline == BuildClient \/ StageAnalysis \/ StageOutline \/ StageDesign \/ StageAssembly

NextPipeline == Main \/ RunPipeline

SpecPipeline == InitPipeline /\ [][NextPipeline]_vars

\* run_pipeline called with a request of the caller's own making: inputs
\* that exist, one whose existence cannot be asked, or none; the LLM asked
\* for or not, with the API key set or not
InitRunPipeline ==
    /\ pc = "pipeline"
    /\ argv = <<>>
    /\ \E inputs \in {<<>>, <<TableInput>>, <<LockedInput>>, <<TableInput, LockedInput>>},
          key \in BOOLEAN, use_llm \in BOOLEAN, d \in {1, MaxPipelineSlides} :
          /\ fs = [exists |-> CliFiles, oserror |-> {LockedInput}, pandas |-> FALSE,
                   pdfplumber |-> FALSE, api_key |-> key, users |-> UsualUsers]
          /\ request = [Options(Some(d), use_llm, Some(GeminiProvider), "comfy", None)
                           EXCEPT !.inputs = inputs]
    /\ llm_client = None
    /\ summary = NoSummary
    /\ outline = NoOutline
    /\ llm_log = <<>>
    /\ titles = <<>>
    /\ DesignIdle
    /\ stage_log = <<>>
    /\ written = <<>>
    /\ result = None

SpecRunPipeline == InitRunPipeline /\ [][RunPipeline]_vars

-----------------------------------------------------------------------------
(* Properties of analyze_request, checked under SpecAnalyze *)

StartsWith(f, prefix) == Len(f) >= Len(prefix) /\ SubSeq(f, 1, Len(prefix)) = prefix

\* C8: an input path that does not exist gets one missing-input finding,
\* adds nothing to topics or sources, and the inputs after it are processed
\* in order; the call does not raise.
C8_MissingInputIsNotedAndSkipped ==
    /\ pc # "raised"
    /\ pc = "analysed" =>
        LET inputs == request.inputs
            Exists(path) == path \in fs.exists
            IsNote(f) == StartsWith(f, MissingPrefix) \/ StartsWith(f, DetectedPrefix)
            present == SelectSeq(inputs, Exists)
            notes == SelectSeq(summary.findings, IsNote)
        IN /\ Len(notes) = Len(inputs)
           /\ \A i \in 1..Len(inputs) :
                 IF Exists(inputs[i])
                 THEN StartsWith(notes[i], DetectedPrefix)
                 ELSE notes[i] = MissingPrefix \o inputs[i]
           /\ Len(summary.sources) = Len(present)
           /\ \A k \in 1..Len(present) : summary.sources[k] = PathResolve(present[k])
           /\ IF present = <<>> THEN summary.topics = <<DefaultTopic>>
              ELSE /\ Len(summary.topics) = Len(present)
                   /\ \A k \in 1..Len(present) : summary.topics[k] = PathStem(present[k])

\* what the call was given by the LLM client, if it asked it
AskedLLM == Truthy(llm_client) /\ request.use_llm
AnalysisReply == IF AskedLLM /\ llm_log # <<>> THEN llm_log[1] ELSE LLMNone
IsLLMSummary(f) == StartsWith(f, LLMSummaryPrefix)

\* the findings of the same call made without LLM assistance, for some
\* outcome of reading the inputs
IsPlainFindings(findings) ==
    \E reads \in ReadChoices(request.inputs, fs) :
        LET plain == analyze_request([request EXCEPT !.use_llm = FALSE], None, fs,
                                     reads, LLMNone)
        IN plain # None /\ findings = plain[1].findings

\* the existence check of some input of the request raises
InputCheckRaises ==
    \E i \in 1..Len(request.inputs) : path_exists(request.inputs[i], fs) = "raise"

\* findings is collected followed by one LLM summary finding holding text,
\* where collected is what instructions and inputs gave
EndsWithLLMSummary(findings, text) ==
    /\ findings # <<>>
    /\ findings[Len(findings)] = LLMSummaryPrefix \o text
    /\ Len(SelectSeq(findings, IsLLMSummary)) = 1
    /\ LET collected == SubSeq(findings, 1, Len(findings) - 1)
       IN IF has_instructions(request) \/ request.inputs # <<>>
          THEN IsPlainFindings(collected)
          ELSE collected = <<>>

\* C15 as stated: a client that is asked and returns non-empty text adds
\* one LLM summary finding as the last finding; when the client is absent,
\* not asked, raises or returns nothing, the call returns normally and the
\* findings are those of the call without LLM assistance.
C15_SummaryForNonEmptyText ==
    /\ ~AskedLLM => pc # "raised"
    /\ pc = "analysed" =>
          IF AskedLLM /\ AnalysisReply.kind = "text" /\ AnalysisReply.text # <<>>
          THEN /\ summary.findings # <<>>
               /\ IsLLMSummary(summary.findings[Len(summary.findings)])
               /\ Len(SelectSeq(summary.findings, IsLLMSummary)) = 1
          ELSE AnalysisReply.kind \in {"raise", "none", "text"} =>
                  IsPlainFindings(summary.findings)

\* C15 amended: a client that is asked and returns text that is not empty
\* after stripping whitespace adds one finding "LLM summary: <stripped text>"
\* as the last finding, after the findings of instructions and inputs; when
\* the client is absent, not asked, raises, returns nothing, returns only
\* whitespace or returns a JSON value that is not a string, the findings
\* are those of the call without LLM assistance.  The LLM step never makes the call
\* raise: the call raises exactly when the existence check of an input
\* raises, which is before the client is asked.
C15_SummaryForNonBlankText ==
    /\ pc = "raised" => (InputCheckRaises /\ llm_log = <<>>)
    /\ (pc # "analysis" /\ ~InputCheckRaises) => pc = "analysed"
    /\ pc = "analysed" =>
          LET text == IF AskedLLM /\ AnalysisReply.kind = "text"
                      THEN Strip(AnalysisReply.text, Whitespace) ELSE <<>>
          IN IF text # <<>>
             THEN EndsWithLLMSummary(summary.findings, text)
             ELSE IsPlainFindings(summary.findings)

\* the client is asked about a text file and instructions, and its reply
\* "- a\n- b " is stripped and appended after the three other findings
C15_Witness ==
    /\ pc = "analysed"
    /\ AskedLLM
    /\ llm_log = <<LLMText(<<"-"," ","a","\n","-"," ","b"," ">>)>>
    /\ request.inputs = << <<"i","n","/","n",".","T","X","T">> >>
    /\ has_instructions(request)
    /\ Len(summary.findings) = 4
    /\ StartsWith(summary.findings[1], UserFocusPrefix)
    /\ StartsWith(summary.findings[3], ExcerptPrefix)
    /\ summary.findings[4] = LLMSummaryPrefix \o <<"-"," ","a","\n","-"," ","b">>

\* C18: topics and findings are never empty; topics is ["General overview"]
\* exactly when no input contributed a topic, findings is the one guidance
\* string exactly when there were no instructions, no inputs and no LLM
\* summary; when something was derived the default is not among the entries.
C18_DefaultsOnlyWhenNothingDerived ==
    pc = "analysed" =>
        LET Exists(path) == path \in fs.exists
            present == SelectSeq(request.inputs, Exists)
            llm_summary == AskedLLM /\ AnalysisReply.kind = "text"
                           /\ Strip(AnalysisReply.text, Whitespace) # <<>>
            nothing == ~has_instructions(request) /\ request.inputs = <<>> /\ ~llm_summary
        IN /\ summary.topics # <<>>
           /\ summary.findings # <<>>
           /\ present = <<>> => summary.topics = <<DefaultTopic>>
           /\ present # <<>> =>
                 /\ Len(summary.topics) = Len(present)
                 /\ \A k \in 1..Len(summary.topics) : summary.topics[k] # DefaultTopic
           /\ nothing => summary.findings = <<DefaultFinding>>
           /\ ~nothing =>
                 \A k \in 1..Len(summary.findings) : summary.findings[k] # DefaultFinding

\* nothing at all is given (empty instructions, no input, a client that
\* returns only whitespace): both defaults are returned
C18_Witness ==
    /\ pc = "analysed"
    /\ request.inputs = <<>>
    /\ request.instructions = Some(<<>>)
    /\ AskedLLM
    /\ llm_log = <<LLMText(<<" ","\n">>)>>
    /\ summary.topics = <<DefaultTopic>>
    /\ summary.findings = <<DefaultFinding>>
    /\ summary.sources = <<>>

\* the inputs of the request that exist, in input order
ExistingInputs ==
    LET Present(path) == path \in fs.exists
    IN SelectSeq(request.inputs, Present)

\* C23: the sources are the resolved paths of the inputs that exist, one per
\* input and in input order, and the topics are the filename stems of the
\* same inputs in the same order (the default topic when none exists), so
\* topics and sources have the same length whenever an input exists.
C23_SourcesAndTopicsInStep ==
    pc = "analysed" =>
        /\ Len(summary.sources) = Len(ExistingInputs)
        /\ \A i \in 1..Len(ExistingInputs) :
              summary.sources[i] = PathResolve(ExistingInputs[i])
        /\ IF ExistingInputs = <<>>
           THEN summary.topics = <<DefaultTopic>>
           ELSE /\ Len(summary.topics) = Len(summary.sources)
                /\ \A i \in 1..Len(ExistingInputs) :
                      summary.topics[i] = PathStem(ExistingInputs[i])

\* a missing input before one that exists: the only source and the only
\* topic are those of the second input
C23_Witness ==
    /\ pc = "analysed"
    /\ Len(request.inputs) = 2
    /\ request.inputs[1] \notin fs.exists
    /\ request.inputs[2] \in fs.exists
    /\ summary.sources = <<PathResolve(request.inputs[2])>>
    /\ summary.topics = <<PathStem(request.inputs[2])>>
    /\ summary.topics # <<DefaultTopic>>

-----------------------------------------------------------------------------
(* Properties of generate_outline, checked under SpecOutline *)

PositiveDuration ==
    Truthy(request.duration_minutes) /\ request.duration_minutes[1] > 0

\* C1: with duration_minutes = d > 0, generate_outline returns exactly d
\* slides, whatever the numbers of topics, findings and data points are.
C1_SlideCountIsDuration ==
    (pc = "outlined" /\ PositiveDuration)
        => Len(outline.slides) = request.duration_minutes[1]

\* d = 4 with 13 topics and 13 findings, and d = 13 (beyond the heuristic's ceiling)
C1_Witness ==
    /\ pc = "outlined"
    /\ request.duration_minutes = Some(4)
    /\ Len(summary.topics) = 13
    /\ Len(summary.findings) = 13
    /\ Len(outline.slides) = 4

\* C2: without a positive duration the slide count is
\* min(max(max(len(findings), len(topics), 1), 3), 12), hence within 3..12.
C2_SlideCountIsClampedComplexity ==
    (pc = "outlined" /\ ~PositiveDuration)
        => /\ Len(outline.slides) =
                Min(Max(Max(Max(Len(summary.findings), Len(summary.topics)), 1), 3), 12)
           /\ Len(outline.slides) \in 3..12

\* duration 0 and 13 findings: the ceiling of 12 applies
C2_Witness ==
    /\ pc = "outlined"
    /\ request.duration_minutes = Some(0)
    /\ Len(summary.findings) = 13
    /\ Len(summary.topics) = 2
    /\ Len(outline.slides) = 12

\* C6: every slide of the outline carries the same visual suggestion: chart
\* when data_points is non-empty, image when it is empty; never absent.
C6_VisualIsGlobalChoice ==
    pc = "outlined" =>
        \A i \in 1..Len(outline.slides) :
            /\ outline.slides[i].visual_suggestion # None
            /\ outline.slides[i].visual_suggestion =
                   Some(IF Len(summary.data_points) > 0 THEN "chart" ELSE "image")

\* one data point, several slides, all of them chart
C6_Witness ==
    /\ pc = "outlined"
    /\ Len(summary.data_points) = 1
    /\ Len(outline.slides) >= 3
    /\ \A i \in 1..Len(outline.slides) :
           outline.slides[i].visual_suggestion = Some("chart")

\* C7: the theme holds every preference key with the preference's value
\* (also keys other than ratio, font, palette), and every default key that
\* is not overridden keeps its default (16:9, Segoe UI, high-contrast).
C7_ThemeMerge ==
    pc = "outlined" =>
        /\ \A k \in DOMAIN request.style_prefs :
               k \in DOMAIN outline.theme /\ outline.theme[k] = request.style_prefs[k]
        /\ "ratio" \notin DOMAIN request.style_prefs => outline.theme["ratio"] = <<"1","6",":","9">>
        /\ "font" \notin DOMAIN request.style_prefs => outline.theme["font"] = <<"S","e","g","o","e"," ","U","I">>
        /\ "palette" \notin DOMAIN request.style_prefs
               => outline.theme["palette"] = <<"h","i","g","h","-","c","o","n","t","r","a","s","t">>

\* a custom key and an overridden palette, the font left at its default
C7_Witness ==
    /\ pc = "outlined"
    /\ DOMAIN request.style_prefs = {"accent", "palette"}
    /\ outline.theme["accent"] = <<"I","n","t","e","r">>
    /\ outline.theme["palette"] = <<"d","a","r","k">>
    /\ outline.theme["font"] = <<"S","e","g","o","e"," ","U","I">>

\* C19: slide i (from 0) has the title "<topics[i mod len(topics)]>: key
\* takeaway" over the full topics list of the summary (over ["Overview"] when
\* it is empty), also when the summary has more topics than slides.
C19_TitlesCycleOverAllTopics ==
    pc = "outlined" =>
        LET topics == IF summary.topics # <<>> THEN summary.topics
                      ELSE << <<"O","v","e","r","v","i","e","w">> >>
        IN \A i \in 1..Len(outline.slides) :
              outline.slides[i].title =
                  topics[((i - 1) % Len(topics)) + 1]
                      \o <<":"," ","k","e","y"," ","t","a","k","e","a","w","a","y">>

\* 13 topics and 12 slides: the topics are cut to 12 and the last slide is
\* titled by topic 12
C19_Witness ==
    /\ pc = "outlined"
    /\ Len(summary.topics) = 13
    /\ Len(outline.slides) = 12
    /\ outline.slides[2].title = <<"B","e","t","a">> \o KeyTakeawaySuffix
    /\ outline.slides[12].title = summary.topics[12] \o KeyTakeawaySuffix
    /\ summary.topics[12] = <<"Q","3",":"," ","p","l","a","n">>

\* C20: every slide has 1..5 bullets, whatever the LLM returns; without LLM
\* refinement they are the first 5 findings in order, each cut to its first
\* 120 characters, or one synthetic bullet when there are no findings.
C20_BulletsOneToFive ==
    pc = "outlined" =>
        \A i \in 1..Len(outline.slides) :
            LET b == outline.slides[i].bullets
                f == summary.findings
            IN /\ Len(b) \in 1..5
               /\ ~(Truthy(llm_client) /\ request.use_llm) =>
                     IF f = <<>>
                     THEN Len(b) = 1 /\ StartsWith(b[1], HighlightPrefix)
                     ELSE /\ Len(b) = Min(5, Len(f))
                          /\ \A j \in 1..Len(b) :
                                b[j] = SubSeq(f[j], 1, Min(120, Len(f[j])))

\* the LLM returns six lines for the first slide, of which five are kept,
\* and raises for the second, which keeps the findings, the long one cut
C20_Witness ==
    /\ pc = "outlined"
    /\ Truthy(llm_client) /\ request.use_llm
    /\ Len(outline.slides) = 3
    /\ llm_log[1] = LLMText(SixLines)
    /\ llm_log[2] = LLMRaise
    /\ outline.slides[1].bullets = << <<"a">>, <<"b">>, <<"c">>, <<"d">>, <<"e">> >>
    /\ Len(summary.findings) = 2
    /\ Len(summary.findings[2]) = 122
    /\ Len(outline.slides[2].bullets) = 2
    /\ Len(outline.slides[2].bullets[2]) = 120

\* the topic of slide i (from 1)
SlideTopic(i) ==
    LET topics == IF summary.topics # <<>> THEN summary.topics ELSE <<OverviewTopic>>
    IN topics[((i - 1) % Len(topics)) + 1]

\* the bullets of slide i before any refinement: the first 5 findings, each
\* cut to 120 characters, or the synthetic bullet of the slide's topic
HeuristicBullets(i) ==
    IF summary.findings = <<>> THEN <<HighlightPrefix \o SlideTopic(i)>>
    ELSE [j \in 1..Min(5, Len(summary.findings)) |->
             SubSeq(summary.findings[j], 1, Min(120, Len(summary.findings[j])))]

\* a line is usable when something is left of it after its dashes, spaces
\* and surrounding whitespace are stripped
HasUsableLine(text) ==
    \E k \in 1..Len(SplitLines(text)) :
        Strip(Strip(SplitLines(text)[k], {"-", " "}), Whitespace) # <<>>

\* the call raised, returned nothing, or returned text with no usable line
RefinementFailed(reply) ==
    \/ reply.kind \in {"raise", "none"}
    \/ reply.kind = "text" /\ ~HasUsableLine(reply.text)

\* the outline the same call gives when the call for slide j has the
\* outcome other instead, the calls for the other slides being as they were
OutlineWithReply(j, other) ==
    generate_outline(summary, request.duration_minutes, request.style_prefs,
                     llm_client, request.use_llm, [llm_log EXCEPT ![j] = other])

\* C21: with LLM refinement on, once the call for a slide has raised,
\* returned nothing or returned no usable line, the outline is still
\* produced, with the full slide count, and that slide has exactly its
\* heuristic bullets; and whatever the outcome of the call for one slide,
\* the bullets of every other slide are the same.
C21_FailedRefinementKeepsBullets ==
    (pc # "outline" /\ Truthy(llm_client) /\ request.use_llm) =>
        /\ (\E i \in 1..Len(llm_log) : RefinementFailed(llm_log[i])) =>
              pc = "outlined"
        /\ pc = "outlined" =>
              /\ Len(outline.slides) =
                    estimate_slide_count(summary, request.duration_minutes)
              /\ Len(llm_log) = Len(outline.slides)
              /\ \A i \in 1..Len(outline.slides) :
                    RefinementFailed(llm_log[i]) =>
                       outline.slides[i].bullets = HeuristicBullets(i)
              /\ \A i, j \in 1..Len(outline.slides) :
                    i # j =>
                       \A other \in LLMReplies :
                          /\ OutlineWithReply(j, other) # None
                          /\ OutlineWithReply(j, other)[1].slides[i].bullets
                                = outline.slides[i].bullets

-----------------------------------------------------------------------------
(* Properties of design_slides, checked under SpecDesign *)

\* C3: draft i (from 0) has the layout [split, stacked, focus][i mod 3],
\* whatever the slide holds, and every call starts again at split.
C3_LayoutsCycleByPosition ==
    pc = "designed" =>
        /\ Len(drafts) = Len(outline.slides)
        /\ \A i \in 1..Len(drafts) :
               drafts[i].layout = <<"split", "stacked", "focus">>[((i - 1) % 3) + 1]

\* a second call, after a first call that stopped in mid-cycle, wraps to split
C3_Witness ==
    /\ pc = "designed"
    /\ Len(design_calls) = 2
    /\ design_calls[1] = 2
    /\ Len(drafts) = 4
    /\ drafts[1].layout = "split"
    /\ drafts[4].layout = "split"
    /\ drafts[1].title # drafts[4].title \/ drafts[1].assets # drafts[4].assets

\* d is s without its leading and trailing whitespace
IsStripped(d, s) ==
    /\ d = <<>> \/ (d[1] \notin Whitespace /\ d[Len(d)] \notin Whitespace)
    /\ \E lead \in 0..Len(s), last \in 0..Len(s) :
          /\ d = SubSeq(s, lead + 1, last)
          /\ \A j \in 1..lead : s[j] \in Whitespace
          /\ \A j \in (last + 1)..Len(s) : s[j] \in Whitespace

\* C4: the draft title is the outline title when that has no colon, and
\* otherwise the text after its first colon, stripped of surrounding whitespace.
C4_DraftTitle ==
    pc = "designed" =>
        \A i \in 1..Len(drafts) :
            LET t == outline.slides[i].title
                colons == {k \in 1..Len(t) : t[k] = ":"}
            IN IF colons = {} THEN drafts[i].title = t
               ELSE \E k \in colons :
                       /\ \A j \in colons : k <= j
                       /\ IsStripped(drafts[i].title, SubSeq(t, k + 1, Len(t)))

\* titles with one colon, with none and with two
C4_Witness ==
    /\ pc = "designed"
    /\ Len(drafts) = 3
    /\ outline.slides[1].title = <<"A","l","p","h","a",":"," ","e","n","d">>
    /\ drafts[1].title = <<"e","n","d">>
    /\ drafts[2].title = <<"B","e","t","a"," ","i","n","s","i","g","h","t">>
    /\ outline.slides[3].title = <<"G",":","f",":","g">>
    /\ drafts[3].title = <<"f",":","g">>

\* C9: a draft has exactly one asset, of the slide's visual suggestion and
\* with a prompt made from the outline title, when the slide has a visual
\* suggestion, and no asset otherwise.  A slide has a visual suggestion
\* when the field holds a string that is not empty; None and the empty
\* string suggest nothing.
C9_OneAssetPerVisual ==
    pc = "designed" =>
        \A i \in 1..Len(drafts) :
            LET slide == outline.slides[i]
                assets == drafts[i].assets
                absent == slide.visual_suggestion \in {None, Some("")}
            IN /\ Len(assets) <= 1
               /\ absent => assets = <<>>
               /\ ~absent =>
                     /\ Len(assets) = 1
                     /\ assets[1].type = slide.visual_suggestion[1]
                     /\ assets[1].prompt = Some(<<"V","i","s","u","a","l"," ","f","o","r"," ">>
                                                   \o slide.title)

\* an image slide, a slide without suggestion, a chart slide and a slide
\* whose suggestion is the empty string
C9_Witness ==
    /\ pc = "designed"
    /\ Len(drafts) = 4
    /\ outline.slides[1].visual_suggestion = Some("image")
    /\ outline.slides[2].visual_suggestion = None
    /\ outline.slides[3].visual_suggestion = Some("chart")
    /\ outline.slides[4].visual_suggestion = Some("")
    /\ drafts[1].assets[1].type = "image"
    /\ drafts[2].assets = <<>>
    /\ drafts[3].assets[1].type = "chart"
    /\ drafts[4].assets = <<>>

\* C10: the generator is invoked for a slide exactly when its suggestion is
\* image and a generator and an assets directory were given; the asset has a
\* path exactly when that invocation returned one (a path that is not the
\* empty string); a raising generator loses neither the draft nor the
\* slides after it.
C10_GeneratorInvocation ==
    /\ pc # "raised"
    /\ pc = "designed" =>
        LET Invoked(i) == /\ outline.slides[i].visual_suggestion = Some("image")
                          /\ image_generator # None
                          /\ assets_dir # None
            Entries(i) == {k \in 1..Len(gen_log) : gen_log[k].slide = i}
        IN /\ Len(drafts) = Len(outline.slides)
           /\ \A k \in 1..Len(gen_log) :
                 /\ gen_log[k].slide \in 1..Len(drafts)
                 /\ gen_log[k].assets_dir = assets_dir[1]
                 /\ \A l \in 1..Len(gen_log) :
                       k < l => gen_log[k].slide < gen_log[l].slide
           /\ \A i \in 1..Len(drafts) :
                 /\ Cardinality(Entries(i)) = IF Invoked(i) THEN 1 ELSE 0
                 /\ \A n \in 1..Len(drafts[i].assets) :
                       LET path == drafts[i].assets[n].path
                       IN /\ path # None <=>
                                \E k \in Entries(i) :
                                    /\ gen_log[k].outcome.kind = "return"
                                    /\ gen_log[k].outcome.path \notin {None, Some(<<>>)}
                          /\ \A k \in Entries(i) :
                                path # None => path = gen_log[k].outcome.path

\* the generator raises for the first image slide and returns a path for
\* the second; a chart slide follows
C10_Witness ==
    /\ pc = "designed"
    /\ Len(drafts) = 3
    /\ Len(gen_log) = 2
    /\ outline.slides[1].visual_suggestion = Some("image")
    /\ outline.slides[2].visual_suggestion = Some("image")
    /\ outline.slides[3].visual_suggestion = Some("chart")
    /\ gen_log[1].outcome = GenRaise
    /\ drafts[1].assets[1].path = None
    /\ gen_log[2].outcome = GenReturn(Some(GeneratedPath))
    /\ drafts[2].assets[1].path = Some(GeneratedPath)
    /\ drafts[3].assets[1].type = "chart"
    /\ drafts[3].assets[1].path = None

-----------------------------------------------------------------------------
(* Properties of _title_as_conclusion, checked under SpecTitle *)

Colons(t) == Cardinality({k \in 1..Len(t) : t[k] = ":"})

\* C5 as stated: normalising an already normalised title returns it unchanged.
C5_Idempotent ==
    \A k \in 2..(Len(titles) - 1) : titles[k + 1] = titles[k]

\* C5 amended: for a title with at most one colon, normalising the
\* normalised title returns it unchanged.
C5_IdempotentUpToOneColon ==
    Colons(titles[1]) <= 1 =>
        \A k \in 2..(Len(titles) - 1) : titles[k + 1] = titles[k]

\* " :a" is normalised to "a", and normalising "a" leaves it
C5_Witness ==
    /\ Len(titles) = 3
    /\ titles[1] = <<" ", ":", "a">>
    /\ titles[2] = <<"a">>
    /\ titles[3] = <<"a">>

-----------------------------------------------------------------------------
(* Properties of main and run_pipeline, checked under SpecPipeline, and of
   run_pipeline called directly, checked under SpecRunPipeline *)

IsStart(e) == e.ev = "start"
StartedStages ==
    LET started == SelectSeq(stage_log, IsStart)
    IN [k \in 1..Len(started) |-> started[k].stage]

\* the stages started so far are the first stages of analysis, outline,
\* design, assembly; each start but the last is followed by the return of
\* its stage; each stage was given the output of the stage before it
StagesInOrder ==
    /\ Len(StartedStages) <= 4
    /\ \A k \in 1..Len(StartedStages) :
          StartedStages[k] = <<"analysis", "outline", "design", "assembly">>[k]
    /\ \A k \in 1..Len(stage_log) :
          LET e == stage_log[k]
          IN IF k % 2 = 1
             THEN /\ e.ev = "start"
                  /\ k > 1 => stage_log[k - 1].ev = "end"
                  /\ k < Len(stage_log)
                  /\ e.stage = "analysis" =>
                        e.args = [request |-> request, llm_client |-> llm_client]
                  /\ e.stage = "outline" =>
                        e.args = [summary |-> summary,
                                  duration_minutes |-> request.duration_minutes,
                                  style_prefs |-> request.style_prefs,
                                  llm_client |-> llm_client,
                                  use_llm |-> request.use_llm]
                  /\ e.stage = "design" =>
                        /\ e.args.outline = outline
                        /\ e.args.assets_dir = Some(request.assets_dir)
                        /\ e.args.image_generator # None
                  /\ e.stage = "assembly" =>
                        e.args = [slides |-> drafts,
                                  requested_output |-> request.output_path,
                                  theme |-> Some(outline.theme)]
             ELSE /\ e.ev \in {"end", "raise"}
                  /\ e.stage = stage_log[k - 1].stage

\* C12: in every run of run_pipeline the stages run in the order analysis,
\* outline, design, assembly, each exactly once; a stage starts only after
\* the stage before it has returned, and it is given that stage's output
\* (assembly the drafts and the outline's theme).
C12_StagesInOrderOnce ==
    /\ StagesInOrder
    /\ pc \in {"completed", "failed"} =>
          StartedStages = <<"analysis", "outline", "design", "assembly">>

\* C13 as stated: whatever fails inside a stage, no stage of run_pipeline
\* raises and the run is not ended by a failure; only main's check of the
\* inputs ends the process, before any stage.
C13_NoStageFailureEscapes ==
    /\ \A k \in 1..Len(stage_log) : stage_log[k].ev # "raise"
    /\ pc # "failed"
    /\ pc \in {"aborted", "crashed"} => stage_log = <<>>

\* every path given in an --input option of the command line, in order
GivenInputs == Flatten(argv, 1, <<>>)

\* C14 as stated: the pipeline is started only when at least one input path
\* was given and every given path exists; otherwise the process ends before
\* any stage; a request passed to run_pipeline has a non-empty list of
\* existing inputs.
C14_PipelineOnlyForExistingInputs ==
    LET AllExist(paths) ==
            \A i \in 1..Len(paths) :
                /\ expanduser(paths[i], fs.users) # None
                /\ expanduser(paths[i], fs.users)[1] \in fs.exists
        acceptable == GivenInputs # <<>> /\ AllExist(GivenInputs)
    IN /\ pc \notin {"main", "aborted", "crashed"} =>
             /\ acceptable
             /\ request.inputs # <<>>
             /\ AllExist(request.inputs)
       /\ (pc # "main" /\ ~acceptable) =>
             (pc \in {"aborted", "crashed"} /\ stage_log = <<>>)

\* C22: no stage changes the structure it receives, and a structure stays as
\* it was handed over through every later stage: the summary from the outline
\* stage on, the outline plan from the design stage on (also when an image
\* path is attached to a draft's asset), the drafts in the assembly stage.
C22_StagesLeaveInputsUnchanged ==
    [][/\ pc \in {"outline", "design", "assembly"} => summary' = summary
       /\ pc \in {"design", "assembly"} => outline' = outline
       /\ pc = "assembly" => drafts' = drafts]_vars

\* a completed run in which the summary had more topics than the outline has
\* slides and a generated image path was attached to a draft's asset: each
\* stage's input is still what the stage was started with
C22_Witness ==
    /\ pc = "completed"
    /\ Len(summary.topics) > Len(outline.slides)
    /\ \E i \in 1..Len(drafts) :
          drafts[i].assets # <<>> /\ Truthy(drafts[i].assets[1].path)
    /\ stage_log[3].args.summary = summary
    /\ stage_log[5].args.outline = outline
    /\ stage_log[7].args.slides = drafts

\* the slide count generate_outline aims at: the duration when it is
\* positive, otherwise the number of findings or topics, whichever is
\* larger, kept between 3 and 12
EstimatedSlides ==
    LET d == request.duration_minutes
    IN IF d # None /\ d[1] > 0 THEN d[1]
       ELSE Min(12, Max(3, Max(Len(summary.findings), Len(summary.topics))))

\* the outline stage has returned its plan
OutlineReturned ==
    \E k \in 1..Len(stage_log) :
        stage_log[k].stage = "outline" /\ stage_log[k].ev = "end"

\* C24: the slide count is preserved through the pipeline: the outline has
\* the estimated number of slides (at least 1), design_slides returns one
\* draft per outline slide in outline order, and the slides_built of the
\* result of run_pipeline is the number of drafts, hence the estimated count.
C24_SlideCountPreserved ==
    /\ pc \in {"design", "assembly", "completed"} => OutlineReturned
    /\ OutlineReturned =>
          /\ Len(outline.slides) = EstimatedSlides
          /\ Len(outline.slides) >= 1
    /\ pc \in {"assembly", "completed"} =>
          /\ Len(drafts) = Len(outline.slides)
          /\ \A i \in 1..Len(drafts) :
                /\ outline.slides[i].title =
                      SlideTopic(i) \o <<":"," ","k","e","y"," ","t","a","k","e","a","w","a","y">>
                /\ drafts[i].title = title_as_conclusion(outline.slides[i].title)
                /\ drafts[i].assets[1].prompt =
                      Some(<<"V","i","s","u","a","l"," ","f","o","r"," ">>
                             \o outline.slides[i].title)
                /\ drafts[i].bullets = outline.slides[i].bullets
    /\ pc = "completed" =>
          /\ result[1].slides_built = Len(drafts)
          /\ result[1].slides_built = EstimatedSlides

\* a completed run without a duration over two inputs: three slides for
\* the topics n, t, n, three drafts in that order, and slides_built = 3
C24_Witness ==
    /\ pc = "completed"
    /\ request.duration_minutes = None
    /\ summary.topics = << <<"n">>, <<"t">> >>
    /\ Len(outline.slides) = 3
    /\ Len(drafts) = 3
    /\ drafts[2].assets[1].prompt # drafts[1].assets[1].prompt
    /\ drafts[3].assets[1].prompt = drafts[1].assets[1].prompt
    /\ result[1].slides_built = 3

-----------------------------------------------------------------------------
(* Properties of generate_image, checked under SpecImage *)

\* the content of the file at path after the writes made so far
FileAt(path) ==
    LET at == {k \in 1..Len(written) : written[k].path = path}
    IN IF at = {} THEN None
       ELSE Some(written[CHOOSE k \in at : \A j \in at : j <= k].content)

\* C16 as stated: while the local file system works, generate_image returns
\* the path of a file it wrote, whatever the remote side does: the client's
\* bytes with the gemini backend and a client that returns bytes, the
\* placeholder image in every other case; it never raises.
C16_ImageFileOnEveryRemoteOutcome ==
    (pc = "imaged" /\ gen_log[1].disk = "ok") =>
        /\ result[1].kind = "return"
        /\ result[1].path # None
        /\ FileAt(result[1].path[1]) =
              IF /\ request.image_backend = "gemini"
                 /\ llm_client # None
                 /\ llm_log # <<>>
                 /\ llm_log[1].kind = "bytes"
                 /\ llm_log[1].data # <<>>
              THEN Some([kind |-> "png", data |-> llm_log[1].data])
              ELSE Some([kind |-> "png", data |-> PlaceholderPng])

-----------------------------------------------------------------------------
(* Properties of assemble, checked under SpecAssemble *)

\* the concatenation of a list of strings
RECURSIVE Concat(_)
Concat(parts) == IF parts = <<>> THEN <<>> ELSE Head(parts) \o Concat(Tail(parts))

\* a line of text with its line end
Line(text) == text \o <<"\n">>

\* the lines of draft d, numbered n, as the preview is to hold them
PreviewBlock(d, n) ==
    Line(<<"#","#"," ","S","l","i","d","e"," ">> \o IntToStr(n) \o <<":"," ">> \o d.title)
    \o Concat([j \in 1..Len(d.bullets) |-> Line(<<"-"," ">> \o d.bullets[j])])
    \o (IF Len(d.assets) > 0
        THEN Line(<<"_","A","s","s","e","t","s","_",":"," ">>
                  \o Join([k \in 1..Len(d.assets) |-> TypeText(d.assets[k].type)],
                          <<","," ">>))
        ELSE <<>>)
    \o (IF Len(d.sources) > 0
        THEN Line(<<"_","S","o","u","r","c","e","s","_",":"," ">> \o Join(d.sources, <<","," ">>))
        ELSE <<>>)
    \o (IF d.notes # None /\ d.notes[1] # <<>>
        THEN Line(<<"_","N","o","t","e","s","_",":"," ">> \o d.notes[1])
        ELSE <<>>)

\* C11: the preview is the header line, a blank line, and for each draft in
\* order, numbered from 1: "## Slide N: <title>", one "- <bullet>" line per
\* bullet, an _Assets_ line (the asset types) exactly when the draft has
\* assets, a _Sources_ line exactly when it has sources, a _Notes_ line
\* exactly when it has notes, in that order, and a blank line after the slide.
C11_PreviewFormat ==
    pc = "assembled" =>
        /\ FileAt(result[1].preview_path) # None
        /\ FileAt(result[1].preview_path)[1].kind = "md"
        /\ FileAt(result[1].preview_path)[1].data =
              Line(<<"#"," ","A","u","t","o"," ","P","r","e","s","e","n","t","a","t","i","o","n"," ","A","g","e","n","t"," ","P","r","e","v","i","e","w">>)
              \o Concat([n \in 1..Len(drafts) |-> <<"\n">> \o PreviewBlock(drafts[n], n)])

\* the slide of the snapshot test, followed by a slide without title that
\* has two assets, a source and notes
C11_Witness ==
    /\ pc = "assembled"
    /\ Len(drafts) = 2
    /\ drafts[1].sources = <<>>
    /\ Len(drafts[2].assets) = 2
    /\ FileAt(result[1].preview_path)[1].data =
          <<"#"," ","A","u","t","o"," ","P","r","e","s","e","n","t","a","t","i","o","n"," ","A","g","e","n","t"," ","P","r","e","v","i","e","w","\n","\n","#","#"," ","S","l","i","d","e"," ","1",":"," ","E","x","a","m","p","l","e"," ","T","i","t","l","e","\n","-"," ","F","i","r","s","t"," ","p","o","i","n","t","\n","-"," ","S","e","c","o","n","d"," ","p","o","i","n","t","\n","_","A","s","s","e","t","s","_",":"," ","i","m","a","g","e","\n","_","N","o","t","e","s","_",":"," ","D","r","a","f","t","e","d"," ","p","e","r"," ","S","P","E","C"," ","g","u","i","d","e","l","i","n","e","s",".","\n">>
          \o <<"\n","#","#"," ","S","l","i","d","e"," ","2",":"," ","\n","-"," ","x","\n","_","A","s","s","e","t","s","_",":"," ","c","h","a","r","t",","," ","i","m","a","g","e","\n","_","S","o","u","r","c","e","s","_",":"," ","s","\n","_","N","o","t","e","s","_",":"," ","n","\n">>

\* a path has an extension when its last component holds a dot that is
\* neither its first nor its last character
HasExtension(path) ==
    LET name == SubSeq(path, LastIndex(path, "/") + 1, Len(path))
    IN LastIndex(name, ".") > 1 /\ LastIndex(name, ".") < Len(name)

\* C17: a call of assemble that returns has written the deck at the output
\* path (with a leading ~, ~root or ~nobody expanded to that user's home
\* directory; with an unknown user, or a path that names a directory, the
\* call does not return) and then the markdown preview; the result gives
\* the preview path, which is the output path with its extension replaced
\* by .md (with .md added when it has none), and the number of drafts as
\* slides_built.
C17_DeckAndPreviewWritten ==
    pc = "assembled" =>
        LET r == result[1]
            given == request.output_path
            out == IF HasPrefix(given, <<"~","/">>)
                   THEN <<"/","h","o","m","e","/","u">> \o Tail(given)
                   ELSE IF HasPrefix(given, <<"~","r","o","o","t","/">>)
                   THEN <<"/","r","o","o","t">> \o Drop(given, 5)
                   ELSE IF HasPrefix(given, <<"~","n","o","b","o","d","y","/">>)
                   THEN <<"/","n","o","n","e","x","i","s","t","e","n","t">> \o Drop(given, 7)
                   ELSE given
        IN /\ ~HasPrefix(given, <<"~","g","h","o","s","t">>)
           /\ given # <<".">>
           /\ r.requested_output = out
           /\ r.preview_path =
                 (IF HasExtension(out) THEN SubSeq(out, 1, LastIndex(out, ".") - 1) ELSE out)
                 \o <<".","m","d">>
           /\ r.slides_built = Len(drafts)
           /\ Len(written) = 2
           /\ written[1].path = out /\ written[1].content.kind = "pptx"
           /\ written[1].content.data.slides = drafts
           /\ written[2].path = r.preview_path /\ written[2].content.kind = "md"

\* two drafts assembled to ~/d.v1.pptx: the preview goes to /home/u/d.v1.md
C17_Witness ==
    /\ pc = "assembled"
    /\ request.output_path = <<"~","/","d",".","v","1",".","p","p","t","x">>
    /\ Len(drafts) = 2
    /\ result[1].slides_built = 2
    /\ result[1].preview_path = <<"/","h","o","m","e","/","u","/","d",".","v","1",".","m","d">>
    /\ written[1].path = <<"/","h","o","m","e","/","u","/","d",".","v","1",".","p","p","t","x">>
    /\ written[2].path = result[1].preview_path
    /\ written[2].content.kind = "md"

=============================================================================
